---------------------------- MODULE Spec2Model ----------------------------
(***************************************************************************)
(* Plan-graph engine of the query profile visualizer (js/visualizer.js):   *)
(* graph building, tree layout, camera, operator ranking and the filter    *)
(* query engine, modelled as a state machine over the module-level state   *)
(* of the plan view.                                                       *)
(*                                                                         *)
(* Numbers.  Layout coordinates are integers in the source (sums of the    *)
(* layout constants).  Camera coordinates are floating point in the source *)
(* and fixed point here: positions and lengths in 1/1000 px, zoom in       *)
(* 1/1000 (1000 = 100%).  Times are fixed point in nanoseconds.            *)
(***************************************************************************)
EXTENDS Integers, Sequences, FiniteSets, TLC

\* ------------------------------------------------------------------------
\* Layout constants (visualizer.js:10-13)
\* ------------------------------------------------------------------------
NODE_WIDTH == 160
NODE_HEIGHT == 65
HORIZONTAL_SPACING == 40
VERTICAL_SPACING == 80

\* null / undefined: the empty tuple.  Every nullable value of the model is a
\* function, record or tuple otherwise (an integer id that may be null is the
\* 1-tuple <<id>>).
NULL == <<>>

\* ------------------------------------------------------------------------
\* Generic helpers
\* ------------------------------------------------------------------------
Max(a, b) == IF a >= b THEN a ELSE b
Min(a, b) == IF a <= b THEN a ELSE b

Range(s) == {s[i] : i \in 1..Len(s)}

RECURSIVE SetToSortedSeq(_)
\* ascending enumeration of a finite set of integers
SetToSortedSeq(S) ==
  IF S = {} THEN <<>>
  ELSE LET m == CHOOSE x \in S : \A y \in S : x <= y
       IN <<m>> \o SetToSortedSeq(S \ {m})

\* ------------------------------------------------------------------------
\* Operator names: String.prototype.includes over the name vocabulary
\* ------------------------------------------------------------------------
\* a topology node without a name: node.name is undefined
UNDEFINED_NAME == "<undefined>"

\* fragments each known (upper-cased) name contains, among the fragments the
\* source tests for
NameFragments(name) ==
  CASE name = "OLAP_SCAN"        -> {"SCAN"}
    [] name = "CONNECTOR_SCAN"   -> {"SCAN"}
    [] name = "HASH_JOIN"        -> {"JOIN"}
    [] name = "MERGE_JOIN"       -> {"JOIN", "MERGE"}
    [] name = "EXCHANGE"         -> {"EXCHANGE"}
    [] name = "MERGE_EXCHANGE"   -> {"EXCHANGE", "MERGE"}
    [] name = "PROJECT"          -> {"PROJECT"}
    [] name = "AGGREGATE"        -> {"AGGREGATE", "AGG"}
    [] name = "UNION"            -> {"UNION"}
    [] name = "SORT"             -> {"SORT"}
    [] name = "ANALYTIC"         -> {}
    [] name = "OLAP_SCAN_PREPARE" -> {"SCAN"}
    [] name = "HASH_JOIN_PROBE"  -> {"JOIN", "JOIN_PROBE"}
    [] name = "HASH_JOIN_BUILD"  -> {"JOIN", "JOIN_BUILD"}
    [] name = "EXCHANGE_SOURCE"  -> {"EXCHANGE", "SOURCE"}
    [] name = "EXCHANGE_SINK"    -> {"EXCHANGE"}
    [] name = "CHUNK_ACCUMULATE" -> {}
    [] OTHER                     -> {}

Includes(name, frag) == frag \in NameFragments(name)

getNodeClass(name) ==
  IF Includes(name, "SCAN") THEN "scan"
  ELSE IF Includes(name, "JOIN") THEN "join"
  ELSE IF Includes(name, "EXCHANGE") \/ Includes(name, "MERGE") THEN "exchange"
  ELSE IF Includes(name, "PROJECT") \/ Includes(name, "LIMIT") \/ Includes(name, "TOP_N") THEN "project"
  ELSE IF Includes(name, "AGGREGATE") \/ Includes(name, "AGG") THEN "aggregate"
  ELSE IF Includes(name, "UNION") THEN "union"
  ELSE IF Includes(name, "SORT") THEN "project"
  ELSE ""

isScanOperator(name) == Includes(name, "SCAN")

\* ------------------------------------------------------------------------
\* Graph building (renderFromTopology, first loop)
\* ------------------------------------------------------------------------
\* Object.keys / Object.entries order of an object keyed by integer ids:
\* non-negative integer keys ascending, then the other keys in insertion order
RECURSIVE InsertionOrder(_, _)
InsertionOrder(ids, seen) ==
  IF ids = <<>> THEN <<>>
  ELSE IF Head(ids) \in seen \/ Head(ids) >= 0 THEN InsertionOrder(Tail(ids), seen)
  ELSE <<Head(ids)>> \o InsertionOrder(Tail(ids), seen \cup {Head(ids)})

ObjectKeys(ids) ==
  SetToSortedSeq({i \in Range(ids) : i >= 0}) \o InsertionOrder(ids, {})

\* graph[node.id] = {...} for each node of the list in turn: a later entry
\* with the same id replaces the earlier one
BuildGraph(nodes, metricsMap) ==
  LET ids == {nodes[i].id : i \in 1..Len(nodes)}
      last(id) == CHOOSE i \in 1..Len(nodes) :
                    /\ nodes[i].id = id
                    /\ \A j \in (i+1)..Len(nodes) : nodes[j].id # id
  IN [id \in ids |->
        [id |-> id,
         name |-> nodes[last(id)].name,
         children |-> nodes[last(id)].children,
         metrics |-> IF id \in DOMAIN metricsMap THEN metricsMap[id] ELSE NULL,
         _width |-> 0]]

GraphKeys(nodes) == ObjectKeys([i \in 1..Len(nodes) |-> nodes[i].id])

\* ------------------------------------------------------------------------
\* Tree layout (calculateTreeLayout)
\* ------------------------------------------------------------------------
RECURSIVE calcSubtreeWidth(_, _, _)
RECURSIVE calcChildrenWidth(_, _, _, _, _)

\* forEach over node.children from index i, accumulating totalWidth;
\* st = [graph, visited]
calcChildrenWidth(children, i, total, graph, visited) ==
  IF i > Len(children) THEN [ret |-> total, graph |-> graph, visited |-> visited]
  ELSE IF children[i] \in DOMAIN graph
       THEN LET r == calcSubtreeWidth(children[i], graph, visited)
                t == total + r.ret
                      + (IF i < Len(children) THEN HORIZONTAL_SPACING ELSE 0)
            IN calcChildrenWidth(children, i + 1, t, r.graph, r.visited)
       ELSE calcChildrenWidth(children, i + 1, total, graph, visited)

\* variant: a revisited node reports the width it already carries
RevisitWidth_M(node) == IF node._width = 0 THEN NODE_WIDTH ELSE node._width

\* if (visited.has(node.id)) return NODE_WIDTH
RevisitWidth(node) == NODE_WIDTH

\* pass 1: writes node._width (0 = not yet written) and returns the subtree
\* width
calcSubtreeWidth(id, graph, visited) ==
  IF id \in visited
  THEN [ret |-> RevisitWidth(graph[id]), graph |-> graph, visited |-> visited]
  ELSE IF graph[id].children = <<>>
       THEN [ret |-> NODE_WIDTH,
             graph |-> [graph EXCEPT ![id]._width = NODE_WIDTH],
             visited |-> visited \cup {id}]
       ELSE LET r == calcChildrenWidth(graph[id].children, 1, 0, graph, visited \cup {id})
                w == Max(NODE_WIDTH, r.ret)
            IN [ret |-> w,
                graph |-> [r.graph EXCEPT ![id]._width = w],
                visited |-> r.visited]

\* variant: every child advances the cursor by one node width
ChildAdvance_M(child) == NODE_WIDTH + HORIZONTAL_SPACING

\* childX += (child._width || NODE_WIDTH) + HORIZONTAL_SPACING
ChildAdvance(child) ==
  (IF child._width = 0 THEN NODE_WIDTH ELSE child._width) + HORIZONTAL_SPACING

\* positions[node.id] = { x: x + (node._width - NODE_WIDTH) / 2, y }
NodePosition(node, x, y) == [x |-> x + (node._width - NODE_WIDTH) \div 2, y |-> y]

RECURSIVE assignPositions(_, _, _, _, _)
RECURSIVE assignChildren(_, _, _, _, _, _)

\* variant: a level is one node height below its parent level
ChildY_M(y) == y + NODE_HEIGHT

\* assignPositions(child, childX, y + NODE_HEIGHT + VERTICAL_SPACING, visited)
ChildY(y) == y + NODE_HEIGHT + VERTICAL_SPACING

\* variant: each child call works on its own copy of the visited set
AfterChild_M(st, s2) == [s2 EXCEPT !.visited = st.visited]

\* the visited set is one object handed on to every call: what the call for
\* a child added to it is seen by the calls for the later siblings
AfterChild(st, s2) == s2

\* st = [positions, maxY, visited, assigned]; assigned lists the ids in the
\* order of the assignments positions[node.id] = ...
assignChildren(children, i, childX, y, graph, st) ==
  IF i > Len(children) THEN st
  ELSE IF children[i] \in DOMAIN graph
       THEN LET child == graph[children[i]]
                s2 == assignPositions(children[i], childX, ChildY(y), graph, st)
            IN assignChildren(children, i + 1, childX + ChildAdvance(child), y, graph,
                              AfterChild(st, s2))
       ELSE assignChildren(children, i + 1, childX, y, graph, st)

\* pass 2: centres the node over its subtree span, children left to right
assignPositions(id, x, y, graph, st) ==
  IF id \in st.visited THEN st
  ELSE LET pos == NodePosition(graph[id], x, y)
           s1 == [positions |-> [k \in DOMAIN st.positions \cup {id} |->
                                   IF k = id THEN pos ELSE st.positions[k]],
                  maxY |-> Max(st.maxY, y),
                  visited |-> st.visited \cup {id},
                  assigned |-> Append(st.assigned, id)]
       IN assignChildren(graph[id].children, 1, x, y, graph, s1)

EmptyMap == [k \in {} |-> 0]

calculateTreeLayout(rootId, graph) ==
  LET p1 == calcSubtreeWidth(rootId, graph, {})
      p2 == assignPositions(rootId, 0, 0, p1.graph,
                            [positions |-> EmptyMap, maxY |-> 0, visited |-> {},
                             assigned |-> <<>>])
  IN [positions |-> p2.positions,
      assigned |-> p2.assigned,
      width |-> p1.graph[rootId]._width,
      height |-> p2.maxY + NODE_HEIGHT,
      root |-> rootId,
      graph |-> p1.graph]


\* ------------------------------------------------------------------------
\* Time strings (parseTimeToMicroseconds, formatMicroseconds)
\* ------------------------------------------------------------------------
\* A time string is [num, dec, suffix, ms]: the decimal number num / 10^dec
\* followed by the suffix; the compound form "NsMms" is num = N, dec = 0,
\* suffix = "s+ms", ms = M.  Microsecond values are held in nanoseconds.
Pow10(d) == 10 ^ d

TimeStr(num, dec, suffix) == [num |-> num, dec |-> dec, suffix |-> suffix, ms |-> 0]
CompoundTimeStr(sec, ms) == [num |-> sec, dec |-> 0, suffix |-> "s+ms", ms |-> ms]
NA == [num |-> 0, dec |-> 0, suffix |-> "N/A", ms |-> 0]

\* str.includes(frag) for the unit fragments the parser tests
SuffixIncludes(suffix, frag) ==
  CASE suffix = "ms"   -> frag \in {"ms", "s"}
    [] suffix = "us"   -> frag \in {"us", "s"}
    [] suffix = "ns"   -> frag \in {"ns", "s"}
    [] suffix = "s"    -> frag \in {"s"}
    [] suffix = "s+ms" -> frag \in {"ms", "s"}
    [] OTHER           -> FALSE

\* parseFloat(str) is NaN when the string does not start with a number
StartsWithNumber(str) == str.suffix # "N/A"

\* value * 10^9 / 10^dec etc., exact for the strings of the model
Scaled(num, dec, e) ==
  IF e >= dec THEN num * Pow10(e - dec) ELSE num \div Pow10(dec - e)

\* the chain of unit tests: the decimal exponent of the factor that takes the
\* parsed number to nanoseconds.  On the fourth test the three negated
\* includes of the source hold already, the earlier tests having failed.
UnitExponent(suffix) ==
  IF SuffixIncludes(suffix, "ms") THEN 6
  ELSE IF SuffixIncludes(suffix, "us") THEN 3
  ELSE IF SuffixIncludes(suffix, "ns") THEN 0
  ELSE IF SuffixIncludes(suffix, "s") THEN 9
  ELSE 3

parseTimeToMicroseconds(timeStr) ==
  IF timeStr = NULL \/ timeStr = NA THEN 0
  ELSE IF ~StartsWithNumber(timeStr) THEN 0
  ELSE Scaled(timeStr.num, timeStr.dec, UnitExponent(timeStr.suffix))

\* (ns / unit).toFixed(2) as a count of hundredths, rounded to nearest
ToFixed2(ns, unit) == (ns + unit \div 200) \div (unit \div 100)

\* us is the value in nanoseconds (1000 = 1 microsecond)
formatMicroseconds(us) ==
  IF us >= 1000000000 THEN TimeStr(ToFixed2(us, 1000000000), 2, "s")
  ELSE IF us >= 1000000 THEN TimeStr(ToFixed2(us, 1000000), 2, "ms")
  ELSE IF us >= 1000 THEN TimeStr(ToFixed2(us, 1000), 2, "us")
  ELSE TimeStr(us, 0, "ns")

\* ------------------------------------------------------------------------
\* Metrics (extractMetricsByPlanNodeId, getScanMetrics, getNodeTotalTime)
\* ------------------------------------------------------------------------
\* An operator instance is [operatorName, metrics]; metrics is
\* [CommonMetrics |-> [OperatorTotalTime], UniqueMetrics |-> [ScanTime,
\* NetworkTime, Table]], an absent metric being NULL.
Metrics(total, scan, network, table) ==
  [CommonMetrics |-> [OperatorTotalTime |-> total],
   UniqueMetrics |-> [ScanTime |-> scan, NetworkTime |-> network, Table |-> table]]

Instance(opName, metrics) == [operatorName |-> opName, metrics |-> metrics]

\* variant: a new instance is put in front of the earlier ones
PushInstance_M(instances, inst) == <<inst>> \o instances

\* metricsMap[planNodeId].instances.push({operatorName, metrics})
PushInstance(instances, inst) == Append(instances, inst)

RECURSIVE extractOps(_, _)
\* the innermost loop over the operator keys of one pipeline; an entry whose
\* key does not match "(.+) \(plan_node_id=(-?\d+)\)" has isOp = FALSE
extractOps(ops, metricsMap) ==
  IF ops = <<>> THEN metricsMap
  ELSE LET op == Head(ops)
           id == op.planNodeId
           prev == IF id \in DOMAIN metricsMap THEN metricsMap[id].instances ELSE <<>>
           inst == Instance(op.opName, op.metrics)
       IN IF ~op.isOp THEN extractOps(Tail(ops), metricsMap)
          ELSE extractOps(Tail(ops),
                 [k \in DOMAIN metricsMap \cup {id} |->
                    IF k = id THEN [instances |-> PushInstance(prev, inst)]
                    ELSE metricsMap[k]])

RECURSIVE extractPipelines(_, _)
extractPipelines(pipes, metricsMap) ==
  IF pipes = <<>> THEN metricsMap
  ELSE IF ~Head(pipes).isPipeline THEN extractPipelines(Tail(pipes), metricsMap)
  ELSE extractPipelines(Tail(pipes), extractOps(Head(pipes).ops, metricsMap))

RECURSIVE extractFragments(_, _)
extractFragments(entries, metricsMap) ==
  IF entries = <<>> THEN metricsMap
  ELSE IF ~Head(entries).isFragment THEN extractFragments(Tail(entries), metricsMap)
  ELSE extractFragments(Tail(entries), extractPipelines(Head(entries).pipes, metricsMap))

extractMetricsByPlanNodeId(execution) == extractFragments(execution.entries, EmptyMap)

RECURSIVE sumInstanceTimes(_)
\* the loop of getNodeTotalTime over metricsData.instances
sumInstanceTimes(instances) ==
  IF instances = <<>> THEN 0
  ELSE LET inst == Head(instances)
           common == inst.metrics.CommonMetrics
           unique == inst.metrics.UniqueMetrics
           t1 == IF common.OperatorTotalTime # NULL
                 THEN parseTimeToMicroseconds(common.OperatorTotalTime) ELSE 0
           t2 == IF Includes(inst.operatorName, "SCAN") /\ unique.ScanTime # NULL
                 THEN parseTimeToMicroseconds(unique.ScanTime) ELSE 0
           t3 == IF inst.operatorName = "EXCHANGE_SINK" /\ unique.NetworkTime # NULL
                 THEN parseTimeToMicroseconds(unique.NetworkTime) ELSE 0
       IN t1 + t2 + t3 + sumInstanceTimes(Tail(instances))

\* variant: only the first instance is counted
NodeTotalUs_M(metricsData) ==
  IF metricsData = NULL \/ metricsData.instances = <<>> THEN 0
  ELSE sumInstanceTimes(SubSeq(metricsData.instances, 1, 1))

\* the total in microseconds before it is formatted
NodeTotalUs(metricsData) ==
  IF metricsData = NULL \/ metricsData.instances = <<>> THEN 0
  ELSE sumInstanceTimes(metricsData.instances)

\* returns the formatted total, or NULL
getNodeTotalTime(metricsData) ==
  LET Result(totalUs) == IF totalUs > 0 THEN formatMicroseconds(totalUs) ELSE NULL
  IN IF metricsData = NULL \/ metricsData.instances = <<>> THEN NULL
     ELSE Result(NodeTotalUs(metricsData))

\* ------------------------------------------------------------------------
\* Operator ranking (calculateOperatorRankings)
\* ------------------------------------------------------------------------
RECURSIVE InsertSorted(_, _)
\* stable insertion of op into a list sorted by descending timeMicros: op goes
\* after every element that does not compare strictly smaller
InsertSorted(sorted, op) ==
  IF sorted = <<>> THEN <<op>>
  ELSE IF Head(sorted).timeMicros >= op.timeMicros
       THEN <<Head(sorted)>> \o InsertSorted(Tail(sorted), op)
       ELSE <<op>> \o sorted

RECURSIVE SortDescending(_)
\* operators.sort((a, b) => b.timeMicros - a.timeMicros), a stable sort
SortDescending(ops) ==
  IF ops = <<>> THEN <<>>
  ELSE InsertSorted(SortDescending(SubSeq(ops, 1, Len(ops) - 1)), ops[Len(ops)])

RECURSIVE collectOperators(_, _)
\* the loop over Object.entries(graph)
collectOperators(keys, graph) ==
  IF keys = <<>> THEN <<>>
  ELSE LET node == graph[Head(keys)]
           Entry(timeStr, timeMicros) ==
             IF node.metrics = NULL \/ timeStr = NULL \/ timeMicros <= 0 THEN <<>>
             ELSE <<[id |-> node.id, name |-> node.name,
                     timeStr |-> timeStr, timeMicros |-> timeMicros]>>
           Timed(timeStr) == Entry(timeStr, parseTimeToMicroseconds(timeStr))
       IN Timed(getNodeTotalTime(node.metrics)) \o collectOperators(Tail(keys), graph)

calculateOperatorRankings(keys, graph) == SortDescending(collectOperators(keys, graph))


\* ------------------------------------------------------------------------
\* Filter query language (parseSelector, parseFilterQuery)
\* ------------------------------------------------------------------------
\* A query string is a sequence of tokens.  A term token is the text of one
\* selector; an operator token is one of "," "or" "&" "and"; the token
\* "--hide" is the modifier.
NodeTerm(up, id, down) == [t |-> "node", up |-> up, id |-> id, down |-> down, v |-> ""]
TypeTerm(v) == [t |-> "type", up |-> FALSE, id |-> 0, down |-> FALSE, v |-> v]
TableTerm(v) == [t |-> "table", up |-> FALSE, id |-> 0, down |-> FALSE, v |-> v]
Op(v) == [t |-> "op", up |-> FALSE, id |-> 0, down |-> FALSE, v |-> v]
HideModifier == [t |-> "hide", up |-> FALSE, id |-> 0, down |-> FALSE, v |-> "--hide"]

IsTerm(tok) == tok.t \in {"node", "type", "table"}
IsOrOp(tok) == tok.t = "op" /\ tok.v \in {",", "or"}
IsAndOp(tok) == tok.t = "op" /\ tok.v \in {"&", "and"}

\* String.prototype.toLowerCase over the vocabulary of the model
ToLower(str) ==
  CASE str = "SCAN" -> "scan" [] str = "Join" -> "join"
    [] str = "Orders" -> "orders" [] str = "ORDERS" -> "orders"
    [] OTHER -> str

validTypes == {"scan", "join", "exchange", "aggregate", "project", "union"}

\* parseSelector(part): a selector record, or NULL
parseSelector(part) ==
  IF part.t = "type"
  THEN IF ToLower(part.v) \in validTypes
       THEN [selectorType |-> "type", typeFilter |-> ToLower(part.v)]
       ELSE NULL
  ELSE IF part.t = "table"
  THEN IF part.v # ""
       THEN [selectorType |-> "table", tableFilter |-> ToLower(part.v)]
       ELSE NULL
  ELSE IF part.t = "node" /\ part.id >= 0
  THEN [selectorType |-> "node", nodeId |-> part.id,
        upstream |-> part.up, downstream |-> part.down]
  ELSE NULL

RECURSIVE SplitTokens(_, _, _)
\* String.prototype.split on the OR operators (sep = "or") or on the AND
\* operators (sep = "and"), followed by filter(Boolean): the non-empty parts
\* between separators
SplitTokens(toks, sep, cur) ==
  IF toks = <<>> THEN (IF cur = <<>> THEN <<>> ELSE <<cur>>)
  ELSE IF (sep = "or" /\ IsOrOp(Head(toks))) \/ (sep = "and" /\ IsAndOp(Head(toks)))
       THEN (IF cur = <<>> THEN <<>> ELSE <<cur>>) \o SplitTokens(Tail(toks), sep, <<>>)
       ELSE SplitTokens(Tail(toks), sep, Append(cur, Head(toks)))

\* one AND part is the text between two operators: a single term token is a
\* selector text; several terms with no operator between them are one text
\* that matches none of the selector patterns
ParsePart(part) == IF Len(part) = 1 THEN parseSelector(part[1]) ELSE NULL

RECURSIVE ParseGroup(_, _)
\* the loop over andParts, filling the group's three lists
ParseGroup(andParts, group) ==
  IF andParts = <<>> THEN group
  ELSE LET selector == ParsePart(Head(andParts))
           g2 == IF selector = NULL THEN group
                 ELSE IF selector.selectorType = "node"
                      THEN [group EXCEPT !.nodeSelectors = Append(@, selector)]
                 ELSE IF selector.selectorType = "type"
                      THEN [group EXCEPT !.typeFilters = Append(@, selector.typeFilter)]
                 ELSE [group EXCEPT !.tableFilters = Append(@, selector.tableFilter)]
       IN ParseGroup(Tail(andParts), g2)

EmptyGroup == [nodeSelectors |-> <<>>, typeFilters |-> <<>>, tableFilters |-> <<>>]

RECURSIVE ParseOrParts(_)
ParseOrParts(orParts) ==
  IF orParts = <<>> THEN <<>>
  ELSE LET group == ParseGroup(SplitTokens(Head(orParts), "and", <<>>), EmptyGroup)
       IN (IF group = EmptyGroup THEN <<>> ELSE <<group>>) \o ParseOrParts(Tail(orParts))

parseFilterQuery(query) ==
  LET hideMode == \E i \in 1..Len(query) : query[i] = HideModifier
      stripped == SelectSeq(query, LAMBDA tok : tok # HideModifier)
  IN IF query = <<>> THEN [orGroups |-> <<>>, hideMode |-> FALSE]
     ELSE [orGroups |-> ParseOrParts(SplitTokens(stripped, "or", <<>>)),
           hideMode |-> hideMode]


\* ------------------------------------------------------------------------
\* Graph traversal (buildParentMap, getUpstreamNodes, getDownstreamNodes)
\* ------------------------------------------------------------------------
RECURSIVE traverse(_, _, _)
RECURSIVE traverseChildren(_, _, _, _, _)

\* st = [parentMap, visited]
traverseChildren(children, i, nodeId, graph, st) ==
  IF i > Len(children) THEN st
  ELSE LET childId == children[i]
           s1 == [st EXCEPT !.parentMap =
                    [k \in DOMAIN st.parentMap \cup {childId} |->
                       IF k = childId THEN nodeId ELSE st.parentMap[k]]]
       IN traverseChildren(children, i + 1, nodeId, graph, traverse(childId, graph, s1))

traverse(nodeId, graph, st) ==
  IF nodeId \in st.visited THEN st
  ELSE LET s1 == [st EXCEPT !.visited = @ \cup {nodeId}]
       IN IF nodeId \notin DOMAIN graph THEN s1
          ELSE traverseChildren(graph[nodeId].children, 1, nodeId, graph, s1)

buildParentMap(graph, rootId) ==
  traverse(rootId, graph, [parentMap |-> EmptyMap, visited |-> {}]).parentMap

RECURSIVE walkUp(_, _, _)
\* the while loop of getUpstreamNodes.  The loop has no visited check: when
\* the walk reaches an id it has already added, it repeats forever, and the
\* result is [diverges |-> TRUE]
walkUp(currentId, parentMap, upstream) ==
  IF currentId \notin DOMAIN parentMap THEN [diverges |-> FALSE, nodes |-> upstream]
  ELSE LET nextId == parentMap[currentId]
       IN IF nextId \in upstream THEN [diverges |-> TRUE, nodes |-> upstream]
          ELSE walkUp(nextId, parentMap, upstream \cup {nextId})

\* variant: only the direct parent is collected
getUpstreamNodes_M(nodeId, parentMap) ==
  [diverges |-> FALSE,
   nodes |-> {nodeId} \cup (IF nodeId \in DOMAIN parentMap THEN {parentMap[nodeId]} ELSE {})]

getUpstreamNodes(nodeId, parentMap) == walkUp(nodeId, parentMap, {nodeId})

RECURSIVE walkDown(_, _, _)
\* the breadth-first loop of getDownstreamNodes over its queue
walkDown(queue, graph, downstream) ==
  IF queue = <<>> THEN downstream
  ELSE LET currentId == Head(queue)
       IN IF currentId \in downstream THEN walkDown(Tail(queue), graph, downstream)
          ELSE walkDown(Tail(queue) \o (IF currentId \in DOMAIN graph
                                         THEN graph[currentId].children ELSE <<>>),
                        graph, downstream \cup {currentId})

getDownstreamNodes(nodeId, graph) == walkDown(<<nodeId>>, graph, {})

\* ------------------------------------------------------------------------
\* Filter evaluation (getNodesForSelector, getNodesForType, getNodesForTable,
\* applyFilter).  An evaluation result is [status, nodes]: status "ok",
\* "throws" (a TypeError leaves the handler) or "hangs" (a loop never ends).
\* ------------------------------------------------------------------------
\* variant: the lookup of the id in the graph is skipped
getNodesForSelector_M(selector, graph, parentMap) ==
  [status |-> "ok", nodes |-> {selector.nodeId}]

getNodesForSelector(selector, graph, parentMap) ==
  IF selector.nodeId \notin DOMAIN graph THEN [status |-> "ok", nodes |-> {}]
  ELSE LET down == IF selector.downstream
                   THEN getDownstreamNodes(selector.nodeId, graph) ELSE {}
           Result(up) ==
             IF up.diverges THEN [status |-> "hangs", nodes |-> {}]
             ELSE [status |-> "ok", nodes |-> {selector.nodeId} \cup up.nodes \cup down]
       IN Result(IF selector.upstream /\ parentMap # NULL
                 THEN getUpstreamNodes(selector.nodeId, parentMap.map)
                 ELSE [diverges |-> FALSE, nodes |-> {}])

\* name.toUpperCase() on an undefined name is a TypeError
SomeNameUndefined(graph) == \E id \in DOMAIN graph : graph[id].name = UNDEFINED_NAME

getNodesForType(typeFilter, graph) ==
  IF SomeNameUndefined(graph) THEN [status |-> "throws", nodes |-> {}]
  ELSE [status |-> "ok",
        nodes |-> {id \in DOMAIN graph : getNodeClass(graph[id].name) = typeFilter}]

\* the first instance whose index is in hits, or NULL
FirstInstance(instances, hits) ==
  IF hits = {} THEN NULL
  ELSE instances[CHOOSE i \in hits : \A j \in hits : i <= j]

\* the instance getScanMetrics reads: exact primary scan name, else the first
\* name containing SCAN, else the first instance
ChosenScanInstance(instances) ==
  LET Pick(p1, p2) == IF p1 # NULL THEN p1 ELSE IF p2 # NULL THEN p2 ELSE instances[1]
  IN Pick(FirstInstance(instances,
            {i \in 1..Len(instances) :
               instances[i].operatorName \in {"OLAP_SCAN", "CONNECTOR_SCAN"}}),
          FirstInstance(instances,
            {i \in 1..Len(instances) : Includes(instances[i].operatorName, "SCAN")}))

getScanMetrics(metricsData) ==
  IF metricsData = NULL \/ metricsData.instances = <<>> THEN NULL
  ELSE LET Read(m) ==
             [operatorTotalTime |-> IF m.CommonMetrics.OperatorTotalTime # NULL
                                    THEN m.CommonMetrics.OperatorTotalTime ELSE NA,
              table |-> IF m.UniqueMetrics.Table # "" THEN m.UniqueMetrics.Table ELSE "N/A",
              scanTime |-> IF m.UniqueMetrics.ScanTime # NULL
                           THEN m.UniqueMetrics.ScanTime ELSE TimeStr(0, 0, "ns")]
       IN Read(ChosenScanInstance(metricsData.instances).metrics)

\* the last instance whose index is in hits, or NULL
LastInstance(instances, hits) ==
  IF hits = {} THEN NULL
  ELSE instances[CHOOSE i \in hits : \A j \in hits : j <= i]

\* getJoinMetrics(metricsData), restricted to its three time fields: NULL when
\* there is neither a probe nor a build instance
getJoinMetrics(metricsData) ==
  LET TimeOf(inst) ==
        IF inst # NULL /\ inst.metrics.CommonMetrics.OperatorTotalTime # NULL
        THEN inst.metrics.CommonMetrics.OperatorTotalTime ELSE NA
      Total(totalUs) == IF totalUs > 0 THEN formatMicroseconds(totalUs) ELSE NA
      Times(buildTime, probeTime) ==
        [buildTime |-> buildTime, probeTime |-> probeTime,
         totalJoinTime |-> Total(parseTimeToMicroseconds(buildTime)
                                   + parseTimeToMicroseconds(probeTime))]
      Read(probeInstance, buildInstance) ==
        IF probeInstance = NULL /\ buildInstance = NULL THEN NULL
        ELSE Times(TimeOf(buildInstance), TimeOf(probeInstance))
  IN IF metricsData = NULL \/ metricsData.instances = <<>> THEN NULL
     ELSE Read(LastInstance(metricsData.instances,
                 {i \in 1..Len(metricsData.instances) :
                    Includes(metricsData.instances[i].operatorName, "JOIN_PROBE")}),
               LastInstance(metricsData.instances,
                 {i \in 1..Len(metricsData.instances) :
                    /\ ~Includes(metricsData.instances[i].operatorName, "JOIN_PROBE")
                    /\ Includes(metricsData.instances[i].operatorName, "JOIN_BUILD")}))

getNodesForTable(tableFilter, graph) ==
  LET TableMatches(scanMetrics) ==
        /\ scanMetrics # NULL
        /\ scanMetrics.table # "N/A"
        /\ ToLower(scanMetrics.table) = ToLower(tableFilter)
  IN IF SomeNameUndefined(graph) THEN [status |-> "throws", nodes |-> {}]
     ELSE [status |-> "ok",
           nodes |-> {id \in DOMAIN graph :
                        /\ isScanOperator(graph[id].name)
                        /\ graph[id].metrics # NULL
                        /\ TableMatches(getScanMetrics(graph[id].metrics))}]

\* variant: the items of either set
setIntersection_M(setA, setB) == setA \cup setB

setIntersection(setA, setB) == {item \in setA : item \in setB}
setUnion(setA, setB) == setA \cup {item \in setB : TRUE}

\* the node-id set of the k-th condition of an AND group, in the order the
\* source processes them: node selectors, then type filters, then table filters
GroupCondition(group, k, graph, parentMap) ==
  LET n1 == Len(group.nodeSelectors)
      n2 == Len(group.typeFilters)
  IN IF k <= n1 THEN getNodesForSelector(group.nodeSelectors[k], graph, parentMap)
     ELSE IF k <= n1 + n2 THEN getNodesForType(group.typeFilters[k - n1], graph)
     ELSE getNodesForTable(group.tableFilters[k - n1 - n2], graph)

GroupSize(group) ==
  Len(group.nodeSelectors) + Len(group.typeFilters) + Len(group.tableFilters)

RECURSIVE EvalGroup(_, _, _, _, _)
\* groupNodes starts null (acc = NULL) and is intersected with each condition
EvalGroup(group, k, acc, graph, parentMap) ==
  IF k > GroupSize(group) THEN [status |-> "ok", nodes |-> IF acc = NULL THEN {} ELSE acc.s]
  ELSE LET Step(c) ==
             IF c.status # "ok" THEN c
             ELSE EvalGroup(group, k + 1,
                            [s |-> IF acc = NULL THEN c.nodes
                                   ELSE setIntersection(acc.s, c.nodes)],
                            graph, parentMap)
       IN Step(GroupCondition(group, k, graph, parentMap))

RECURSIVE EvalGroups(_, _, _, _)
\* the loop over spec.orGroups, accumulating matchingNodes
EvalGroups(orGroups, matchingNodes, graph, parentMap) ==
  IF orGroups = <<>> THEN [status |-> "ok", nodes |-> matchingNodes]
  ELSE LET Step(g) ==
             IF g.status # "ok" THEN g
             ELSE EvalGroups(Tail(orGroups), setUnion(matchingNodes, g.nodes),
                             graph, parentMap)
       IN Step(EvalGroup(Head(orGroups), 1, NULL, graph, parentMap))


\* ------------------------------------------------------------------------
\* Filter pills (renderFilterPills, getQueryFromPills)
\* ------------------------------------------------------------------------
\* The children of the pills container: a pill carries its selector text in
\* data-selector, an operator element carries "," or "&"
Pill(term) == [cls |-> "filter-pill", selector |-> term, text |-> ""]
OperatorEl(text) == [cls |-> "filter-operator", selector |-> Op(text), text |-> text]

RECURSIVE JoinWith(_, _)
\* the elements of groupPills / of the groups with sep pushed between them
JoinWith(seqs, sep) ==
  IF seqs = <<>> THEN <<>>
  ELSE IF Len(seqs) = 1 THEN seqs[1]
  ELSE seqs[1] \o <<sep>> \o JoinWith(Tail(seqs), sep)

\* the pills of one AND group: node selectors, type filters, table filters
GroupPills(group) ==
  [i \in 1..Len(group.nodeSelectors) |->
     <<Pill(NodeTerm(group.nodeSelectors[i].upstream, group.nodeSelectors[i].nodeId,
                     group.nodeSelectors[i].downstream))>>]
  \o [i \in 1..Len(group.typeFilters) |-> <<Pill(TypeTerm(group.typeFilters[i]))>>]
  \o [i \in 1..Len(group.tableFilters) |-> <<Pill(TableTerm(group.tableFilters[i]))>>]

renderFilterPills(spec) ==
  JoinWith([g \in 1..Len(spec.orGroups) |->
              JoinWith(GroupPills(spec.orGroups[g]), OperatorEl("&"))],
           OperatorEl(","))

RECURSIVE pillGroups(_, _)
\* the forEach of getQueryFromPills: the list of non-empty pill groups
pillGroups(children, currentGroup) ==
  IF children = <<>> THEN (IF currentGroup = <<>> THEN <<>> ELSE <<currentGroup>>)
  ELSE LET node == Head(children)
       IN IF node.cls = "filter-pill"
          THEN pillGroups(Tail(children), Append(currentGroup, <<node.selector>>))
          ELSE IF node.text = ","
               THEN (IF currentGroup = <<>> THEN <<>> ELSE <<currentGroup>>)
                    \o pillGroups(Tail(children), <<>>)
               ELSE pillGroups(Tail(children), currentGroup)

\* groups joined with " & ", the parts joined with ", "
getQueryFromPills(children) ==
  LET groups == pillGroups(children, <<>>)
  IN JoinWith([g \in 1..Len(groups) |-> JoinWith(groups[g], Op("&"))], Op(","))

\* ------------------------------------------------------------------------
\* Rendering (renderTreeWithSVG)
\* ------------------------------------------------------------------------
PADDING == 40

RECURSIVE collectEdges(_, _, _, _)
RECURSIVE collectChildEdges(_, _, _, _, _, _)

\* st = [edges, visited]
collectChildEdges(children, i, nodeId, graph, positions, st) ==
  IF i > Len(children) THEN st
  ELSE LET childId == children[i]
       IN IF childId \in DOMAIN graph /\ childId \in DOMAIN positions
          THEN collectChildEdges(children, i + 1, nodeId, graph, positions,
                 collectEdges(childId, graph, positions,
                              [st EXCEPT !.edges = @ \cup {<<nodeId, childId>>}]))
          ELSE collectChildEdges(children, i + 1, nodeId, graph, positions, st)

collectEdges(nodeId, graph, positions, st) ==
  IF nodeId \in st.visited THEN st
  ELSE collectChildEdges(graph[nodeId].children, 1, nodeId, graph, positions,
                         [st EXCEPT !.visited = @ \cup {nodeId}])

\* the ids of Object.entries(positions) that the node loop reaches before a
\* node without a name makes getNodeClass throw; all of them when none does
RenderedPrefix(positions, graph) ==
  LET keys == SetToSortedSeq(DOMAIN positions)
      bad == {i \in 1..Len(keys) : graph[keys[i]].name = UNDEFINED_NAME}
      stop == IF bad = {} THEN Len(keys) + 1 ELSE CHOOSE i \in bad : \A j \in bad : i <= j
  IN [throws |-> bad # {}, ids |-> {keys[i] : i \in 1..(stop - 1)}]

\* currentNodePositions[id] = {x: pos.x + padding, y: pos.y + padding}
PaddedPositions(positions, ids) ==
  [id \in ids |-> [x |-> positions[id].x + PADDING, y |-> positions[id].y + PADDING]]


\* ------------------------------------------------------------------------
\* Camera (clampCameraToBounds, fitToView, fitToNodes, zoomToCenter, panBy,
\* zoomToNode).  camera.x and camera.y are in 1/1000 px, camera.zoom in
\* 1/1000; rect (the canvas rectangle) and the content size are in px.
\* ------------------------------------------------------------------------
MIN_ZOOM == 100
MAX_ZOOM == 6000
PAN_STEP == 80
\* the fixed-point unit: a zoom of 100%, and 1 px in camera coordinates
ONE == Pow10(3)

\* px / zoom, in 1/1000 px
DivZoom(px, zoom) == (px * ONE * ONE) \div zoom
\* px in 1/1000 px
Milli(px) == px * ONE
\* zoom * factor, the factor given as num / den
MulZoom(zoom, num, den) == (zoom * num) \div den
\* variant: only the lower limit is enforced
ClampZoom_M(z) == Max(MIN_ZOOM, z)

ClampZoom(z) == Max(MIN_ZOOM, Min(MAX_ZOOM, z))

\* the clamp interval of one axis for a viewport extent and a content extent
\* (both in 1/1000 px): overscroll 0.5 of the content plus the centring margin
ClampLo(viewport, content) == -(content \div 2) - Max(0, (viewport - content) \div 2)
ClampHi(viewport, content) ==
  (content * 3) \div 2 - viewport + Max(0, (viewport - content) \div 2)

\* variant: only the lower bound is enforced
ClampAxis_M(v, viewport, content) == Max(ClampLo(viewport, content), v)

ClampAxis(v, viewport, content) ==
  IF ClampHi(viewport, content) > ClampLo(viewport, content)
  THEN Max(ClampLo(viewport, content), Min(ClampHi(viewport, content), v))
  ELSE v

clampCameraToBounds(cam, rect, content) ==
  IF content.width = 0 \/ content.height = 0 THEN cam
  ELSE [x |-> ClampAxis(cam.x, DivZoom(rect.width, cam.zoom), Milli(content.width)),
        y |-> ClampAxis(cam.y, DivZoom(rect.height, cam.zoom), Milli(content.height)),
        zoom |-> cam.zoom]

\* the scale that fits extent (px) into avail (px), in 1/1000
FitScale(avail, extent) == (avail * ONE) \div extent

fitToView(cam, rect, content) ==
  IF content.width = 0 \/ content.height = 0 THEN cam
  ELSE LET padding == 40
           scaleX == FitScale(rect.width - padding * 2, content.width)
           scaleY == FitScale(rect.height - padding * 2, content.height)
           scale == Min(Min(scaleX, scaleY), ONE)
           zoom == ClampZoom(scale)
       IN [x |-> -((DivZoom(rect.width, zoom) - Milli(content.width)) \div 2),
           y |-> -((DivZoom(rect.height, zoom) - Milli(content.height)) \div 2),
           zoom |-> zoom]

SetMin(S) == CHOOSE x \in S : \A y \in S : x <= y
SetMax(S) == CHOOSE x \in S : \A y \in S : x >= y

fitToNodes(cam, nodeIds, positions, rect, content) ==
  LET valid == nodeIds \cap DOMAIN positions
  IN IF valid = {} THEN cam
     ELSE LET minX == SetMin({positions[id].x : id \in valid})
              minY == SetMin({positions[id].y : id \in valid})
              maxX == SetMax({positions[id].x + NODE_WIDTH : id \in valid})
              maxY == SetMax({positions[id].y + NODE_HEIGHT : id \in valid})
              contentWidth == maxX - minX
              contentHeight == maxY - minY
              padding == 60
              scaleX == FitScale(rect.width - padding * 2, contentWidth)
              scaleY == FitScale(rect.height - padding * 2, contentHeight)
              scale == Min(Min(scaleX, scaleY), 2 * ONE)
              zoom == ClampZoom(scale)
              centerX == Milli(minX) + Milli(contentWidth) \div 2
              centerY == Milli(minY) + Milli(contentHeight) \div 2
          IN clampCameraToBounds(
               [x |-> centerX - DivZoom(rect.width, zoom) \div 2,
                y |-> centerY - DivZoom(rect.height, zoom) \div 2,
                zoom |-> zoom], rect, content)

\* variant: the zoom changes and the camera position is not recomputed
ZoomAbout_M(cam, sx2, sy2, num, den, rect, content) ==
  clampCameraToBounds([x |-> cam.x, y |-> cam.y,
                       zoom |-> ClampZoom(MulZoom(cam.zoom, num, den))], rect, content)

\* zoom about the screen point (sx, sy) px by the factor num / den: the body
\* shared by zoomToCenter and handleWheel
ZoomAbout(cam, sx2, sy2, num, den, rect, content) ==
  LET worldX == cam.x + DivZoom(sx2, cam.zoom) \div 2
      worldY == cam.y + DivZoom(sy2, cam.zoom) \div 2
      zoom == ClampZoom(MulZoom(cam.zoom, num, den))
  IN clampCameraToBounds([x |-> worldX - DivZoom(sx2, zoom) \div 2,
                          y |-> worldY - DivZoom(sy2, zoom) \div 2,
                          zoom |-> zoom], rect, content)

\* zoomDelta is num / den; the anchor is the centre of the canvas rectangle
zoomToCenter(cam, num, den, rect, content) ==
  ZoomAbout(cam, rect.width, rect.height, num, den, rect, content)

\* deltaY > 0 zooms out by 0.99, otherwise in by 1.01; the anchor is the
\* mouse position (mouseX, mouseY) px
handleWheel(cam, mouseX, mouseY, deltaYPositive, rect, content) ==
  IF deltaYPositive
  THEN ZoomAbout(cam, 2 * mouseX, 2 * mouseY, 99, 100, rect, content)
  ELSE ZoomAbout(cam, 2 * mouseX, 2 * mouseY, 101, 100, rect, content)

panBy(cam, dx, dy, rect, content) ==
  clampCameraToBounds([x |-> cam.x - DivZoom(dx, cam.zoom),
                       y |-> cam.y - DivZoom(dy, cam.zoom),
                       zoom |-> cam.zoom], rect, content)

\* the camera zoomToNode leaves for a node at pos (px)
zoomToNodeCamera(pos, rect, content) ==
  LET zoom == 1200
  IN clampCameraToBounds(
       [x |-> Milli(pos.x) + Milli(NODE_WIDTH) \div 2 - DivZoom(rect.width, zoom) \div 2,
        y |-> Milli(pos.y) + Milli(NODE_HEIGHT) \div 2 - DivZoom(rect.height, zoom) \div 2,
        zoom |-> zoom], rect, content)


\* ------------------------------------------------------------------------
\* State of the plan view
\* ------------------------------------------------------------------------
VARIABLES
  camera,               \* {x, y, zoom}
  viewportState,        \* drag gesture: isPanning, start point, start camera
  currentContentSize,   \* {width, height} px
  currentNodePositions, \* id -> {x, y} px
  currentGraph,         \* NULL, or [keys, nodes]: the graph object and its key order
  currentRootId,        \* NULL, or <<rootId>>
  currentParentMap,     \* NULL, or [map |-> childId -> parentId]
  rankedOperators,      \* result of the last calculateOperatorRankings
  rect,                 \* planCanvas.getBoundingClientRect(): {width, height} px
  containerShown,       \* planContainer.style.display = 'block'
  domNodes,             \* ids with a rendered #node-<id> element
  domEdges,             \* <<from, to>> of the rendered edge paths and labels
  nodeMark,             \* id -> filter class of the node element ("" = none)
  edgeMark,             \* edge -> filter classes of the path and its label
  pills,                \* children of #planFilterPills
  searchInput,          \* {value, shown} of #planSearchInput
  hideToggle,           \* #planSearchHideToggle has class hide-mode
  filterSummary,        \* NULL (hidden), or [count]
  rafOuter,             \* a first-frame callback of the post-load fit is queued
  rafInner,             \* a second-frame callback (fitToView) is queued
  hung,                 \* an event handler entered a loop that never ends
  layout,               \* NULL, or the last result of calculateTreeLayout
  lastEvent,            \* the event handled last and what it returned
  loads,                \* number of profile loads so far
  cameraOps,            \* number of camera events so far
  filterOps,            \* number of search-bar events so far
  currentQuery,         \* queryState.js: NULL, or the query JSON
  querySource,          \* queryState.js: NULL, or {type, id}
  listeners,            \* queryState.js: the registered callbacks, in order
  locationHash,         \* window.location.hash
  urlLoad,              \* initQueryState: "none", "pending", "loaded", "failed"
  notified              \* the callback calls of the last notifyListeners

graphVars == <<currentGraph, currentRootId, currentParentMap>>
layoutVars == <<currentContentSize, currentNodePositions, layout, rankedOperators>>
cameraVars == <<camera, viewportState>>
domVars == <<containerShown, domNodes, domEdges, nodeMark, edgeMark>>
searchVars == <<pills, searchInput, hideToggle, filterSummary>>
rafVars == <<rafOuter, rafInner>>
countVars == <<loads, cameraOps, filterOps>>
queryVars == <<currentQuery, querySource, listeners, locationHash, urlLoad, notified>>

vars == <<camera, viewportState, currentContentSize, currentNodePositions,
          currentGraph, currentRootId, currentParentMap, rankedOperators, rect,
          containerShown, domNodes, domEdges, nodeMark, edgeMark, pills,
          searchInput, hideToggle, filterSummary, rafOuter, rafInner, hung,
          layout, lastEvent, loads, cameraOps, filterOps, currentQuery,
          querySource, listeners, locationHash, urlLoad, notified>>

InitialViewportState ==
  [isPanning |-> FALSE, startX |-> 0, startY |-> 0,
   startCameraX |-> 0, startCameraY |-> 0, pointerId |-> NULL]

\* the module-level initialisers of visualizer.js, for a canvas rectangle r
\* ops is the number of camera events counted so far
\* the listeners registered while the modules load: main.js registers the
\* one of the other tabs, then setupPlanDropZone the one of the plan view
ModuleListeners == <<"tabs", "planView">>

\* the source a legacy hash names: parseNorthStarUrl, NULL when it names none
parseNorthStarUrl(hash) ==
  IF hash = "#gist:g1" THEN [type |-> "gist", id |-> "g1"]
  ELSE IF hash = "#paste:p1" THEN [type |-> "paste", id |-> "p1"]
  ELSE NULL

\* queryState.js once main.js has run: the listeners are registered and
\* initQueryState has returned false, or awaits loadFromUrl
InitQueryStateAt(hash) ==
  /\ currentQuery = NULL
  /\ querySource = NULL
  /\ listeners = ModuleListeners
  /\ locationHash = hash
  /\ urlLoad = IF hash # "" /\ parseNorthStarUrl(hash) # NULL THEN "pending" ELSE "none"
  /\ notified = <<>>

InitPlanView(r, ops) ==
  /\ camera = [x |-> 0, y |-> 0, zoom |-> ONE]
  /\ viewportState = InitialViewportState
  /\ currentContentSize = [width |-> 0, height |-> 0]
  /\ currentNodePositions = EmptyMap
  /\ currentGraph = NULL
  /\ currentRootId = NULL
  /\ currentParentMap = NULL
  /\ rankedOperators = <<>>
  /\ rect = r
  /\ containerShown = FALSE
  /\ domNodes = {}
  /\ domEdges = {}
  /\ nodeMark = EmptyMap
  /\ edgeMark = EmptyMap
  /\ pills = <<>>
  /\ searchInput = [value |-> <<>>, shown |-> TRUE]
  /\ hideToggle = FALSE
  /\ filterSummary = NULL
  /\ rafOuter = FALSE
  /\ rafInner = FALSE
  /\ hung = FALSE
  /\ layout = NULL
  /\ lastEvent = [op |-> "init"]
  /\ loads = 0
  /\ cameraOps = ops
  /\ filterOps = 0

InitViewFrom(r, ops) == InitPlanView(r, ops) /\ InitQueryStateAt("")

InitView(r) == InitViewFrom(r, 0)

\* ------------------------------------------------------------------------
\* Profile load (the query listener, renderPlan, renderFromTopology)
\* ------------------------------------------------------------------------
\* A profile document is [execution, topology, entries]: execution FALSE when
\* Query.Execution is missing; topology NULL when Execution.Topology is
\* missing, [parses |-> FALSE] when JSON.parse throws on it, otherwise
\* [parses |-> TRUE, rootId, nodes]; entries the fragment entries.

\* clearFilter(): the search bar part (input, pills, toggle) and the summary
ClearSearchBar ==
  /\ filterSummary' = NULL
  /\ searchInput' = [value |-> <<>>, shown |-> TRUE]
  /\ pills' = <<>>
  /\ hideToggle' = FALSE

\* variant: the cache survives the replacement of the graph
ParentMapAfterLoad_M == currentParentMap

\* currentParentMap = null in renderFromTopology (reset parent map cache)
ParentMapAfterLoad == NULL

\* a load that stops at an alert before anything is assigned
LoadRejected(p, why) ==
  /\ lastEvent' = [op |-> "load", result |-> why]
  /\ UNCHANGED <<graphVars, layoutVars, cameraVars, domVars, searchVars, rafVars,
                 cameraOps, filterOps>>

\* renderFromTopology when graph[rootId] is undefined: the graph, root and
\* parent-map cache are already assigned when the alert is raised
LoadRootMissing(p, graph) ==
  /\ currentGraph' = [keys |-> GraphKeys(p.topology.nodes), nodes |-> graph]
  /\ currentRootId' = <<p.topology.rootId>>
  /\ currentParentMap' = ParentMapAfterLoad
  /\ lastEvent' = [op |-> "load", result |-> "root-missing"]
  /\ UNCHANGED <<layoutVars, cameraVars, domVars, searchVars, rafVars,
                 cameraOps, filterOps>>

\* renderTreeWithSVG throws in its node loop: currentNodePositions holds the
\* positions stored so far, the content size and the canvas are untouched
LoadRenderThrows(p, lay) ==
  /\ currentGraph' = [keys |-> GraphKeys(p.topology.nodes), nodes |-> lay.graph]
  /\ currentRootId' = <<p.topology.rootId>>
  /\ currentParentMap' = ParentMapAfterLoad
  /\ layout' = lay
  /\ currentNodePositions' =
       PaddedPositions(lay.positions, RenderedPrefix(lay.positions, lay.graph).ids)
  /\ lastEvent' = [op |-> "load", result |-> "render-throws"]
  /\ UNCHANGED <<currentContentSize, rankedOperators, cameraVars, domVars,
                 searchVars, rafVars, cameraOps, filterOps>>

\* op.name.replace in renderSlowestPanel throws for a ranked node without a
\* name (one of the first ten)
PanelThrows(ranked) ==
  \E i \in 1..Min(10, Len(ranked)) : ranked[i].name = UNDEFINED_NAME

\* the part of a load up to and including renderTreeWithSVG and the ranking
LoadRendered(p, lay) ==
  LET edges == collectEdges(lay.root, lay.graph, lay.positions,
                            [edges |-> {}, visited |-> {}]).edges
  IN /\ currentGraph' = [keys |-> GraphKeys(p.topology.nodes), nodes |-> lay.graph]
     /\ currentRootId' = <<p.topology.rootId>>
     /\ currentParentMap' = ParentMapAfterLoad
     /\ layout' = lay
     /\ currentNodePositions' = PaddedPositions(lay.positions, DOMAIN lay.positions)
     /\ currentContentSize' = [width |-> lay.width + PADDING * 2,
                               height |-> lay.height + PADDING * 2]
     /\ domNodes' = DOMAIN lay.positions
     /\ domEdges' = edges
     /\ edgeMark' = [e \in edges |-> {}]
     /\ rankedOperators' =
          calculateOperatorRankings(GraphKeys(p.topology.nodes), lay.graph)

LoadPanelThrows(p, lay) ==
  /\ LoadRendered(p, lay)
  /\ nodeMark' = [id \in DOMAIN lay.positions |-> ""]
  /\ lastEvent' = [op |-> "load", result |-> "panel-throws"]
  /\ UNCHANGED <<cameraVars, containerShown, searchVars, rafVars, cameraOps, filterOps>>

LoadCompletes(p, lay) ==
  /\ LoadRendered(p, lay)
  /\ containerShown' = TRUE
  /\ rafOuter' = TRUE
  /\ nodeMark' = [id \in DOMAIN lay.positions |-> ""]
  /\ ClearSearchBar
  /\ lastEvent' = [op |-> "load", result |-> "ok"]
  /\ UNCHANGED <<cameraVars, rafInner, cameraOps, filterOps>>

MaxLoads == 2

\* the listener called with a query document p
renderPlan(p) ==
  /\ ~hung
  /\ loads < MaxLoads
  /\ loads' = loads + 1
  /\ UNCHANGED <<rect, hung>>
  /\ IF ~p.execution THEN LoadRejected(p, "no-execution")
     ELSE IF p.topology = NULL THEN LoadRejected(p, "no-topology")
     ELSE IF ~p.topology.parses THEN LoadRejected(p, "parse-error")
     ELSE LET Render(graph, lay) ==
                IF p.topology.rootId \notin DOMAIN graph THEN LoadRootMissing(p, graph)
                ELSE IF RenderedPrefix(lay.positions, lay.graph).throws
                     THEN LoadRenderThrows(p, lay)
                ELSE IF PanelThrows(calculateOperatorRankings(GraphKeys(p.topology.nodes),
                                                              lay.graph))
                     THEN LoadPanelThrows(p, lay)
                ELSE LoadCompletes(p, lay)
              Layout(graph) == Render(graph, calculateTreeLayout(p.topology.rootId, graph))
          IN Layout(BuildGraph(p.topology.nodes, extractMetricsByPlanNodeId(p)))

\* the listener called with null: the drop zone replaces the plan and the
\* canvas is emptied; no module-level state is reset
clearPlan ==
  /\ ~hung
  /\ containerShown' = FALSE
  /\ domNodes' = {}
  /\ domEdges' = {}
  /\ nodeMark' = EmptyMap
  /\ edgeMark' = EmptyMap
  /\ lastEvent' = [op |-> "clear"]
  /\ UNCHANGED <<graphVars, layoutVars, cameraVars, searchVars, rafVars, rect, hung,
                 countVars>>

\* a listener call ends in an exception: the listener of the other tabs when
\* one of its unguarded updates fails, a registered callback that throws
ListenerThrows(l, tabsThrow) == l = "thrower" \/ (l = "tabs" /\ tabsThrow)

\* variant: no try/catch around the callback, the first exception ends forEach
notifyListeners_M(ls, query, tabsThrow) ==
  LET stops == {i \in 1..Len(ls) : ListenerThrows(ls[i], tabsThrow)}
      last == IF stops = {} THEN Len(ls)
              ELSE CHOOSE i \in stops : \A j \in stops : i <= j
  IN [i \in 1..last |-> [listener |-> ls[i], query |-> query,
                         threw |-> ListenerThrows(ls[i], tabsThrow)]]

\* notifyListeners: forEach calls every callback with currentQuery, in
\* order; an exception is caught and logged. The result is the call log.
notifyListeners(ls, query, tabsThrow) ==
  [i \in 1..Len(ls) |-> [listener |-> ls[i], query |-> query,
                         threw |-> ListenerThrows(ls[i], tabsThrow)]]

\* the effect of the calls: the plan view's listener renders a query and
\* clears the plan on null; the other callbacks change nothing modelled here
RunListeners(calls, query) ==
  /\ notified' = calls
  /\ IF \E i \in DOMAIN calls : calls[i].listener = "planView"
     THEN IF query # NULL THEN renderPlan(query) ELSE clearPlan
     ELSE UNCHANGED <<graphVars, layoutVars, cameraVars, domVars, searchVars, rafVars,
                      rect, hung, countVars, lastEvent>>

HashSources == {"gist", "paste"}

setQuery(queryJson, source, tabsThrow) ==
  /\ currentQuery' = queryJson
  /\ querySource' = source
  /\ locationHash' = IF source # NULL /\ source.type \in HashSources
                     THEN "#" \o source.type \o ":" \o source.id
                     ELSE locationHash
  /\ RunListeners(notifyListeners(listeners, queryJson, tabsThrow), queryJson)
  /\ UNCHANGED <<listeners, urlLoad>>

clearQuery(tabsThrow) ==
  /\ currentQuery' = NULL
  /\ querySource' = NULL
  /\ locationHash' = ""
  /\ RunListeners(notifyListeners(listeners, NULL, tabsThrow), NULL)
  /\ UNCHANGED <<listeners, urlLoad>>

\* a profile file is dropped on the plan view: loadPlanFile calls setQuery
LoadProfile(p) == setQuery(p, NULL, FALSE)

\* the clear button
ClearQuery == clearQuery(FALSE)

\* one animation frame: a queued second-frame callback runs fitToView(false),
\* a queued first-frame callback queues the second-frame one
AnimationFrame ==
  /\ ~hung
  /\ rafOuter \/ rafInner
  /\ rafInner' = rafOuter
  /\ rafOuter' = FALSE
  /\ camera' = IF rafInner THEN fitToView(camera, rect, currentContentSize) ELSE camera
  /\ lastEvent' = [op |-> IF rafInner THEN "fitToView" ELSE "frame"]
  /\ UNCHANGED <<graphVars, layoutVars, viewportState, domVars, searchVars, rect, queryVars, hung,
                 countVars>>


\* ------------------------------------------------------------------------
\* applyFilter(query)
\* ------------------------------------------------------------------------
\* what a call applyFilter(query) does in the current state: kind is
\* "no-graph" (returns null at once), "reset" (no OR group: visuals reset,
\* returns null), "applied" (returns the matching set), "throws" or "hangs"
FilterOutcome(query) ==
  IF currentGraph = NULL
  THEN [kind |-> "no-graph", hideMode |-> FALSE, parentMap |-> currentParentMap, matching |-> {}]
  ELSE LET Result(spec, pm, ev) ==
             [kind |-> IF ev.status = "ok" THEN "applied" ELSE ev.status,
              hideMode |-> spec.hideMode, parentMap |-> pm, matching |-> ev.nodes]
           Evaluate(spec, pm) ==
             IF spec.orGroups = <<>>
             THEN [kind |-> "reset", hideMode |-> spec.hideMode,
                   parentMap |-> currentParentMap, matching |-> {}]
             ELSE Result(spec, pm, EvalGroups(spec.orGroups, {}, currentGraph.nodes, pm))
       IN Evaluate(parseFilterQuery(query),
                   IF currentParentMap = NULL /\ currentRootId # NULL
                   THEN [map |-> buildParentMap(currentGraph.nodes, currentRootId[1])]
                   ELSE currentParentMap)

\* the two filter classes an edge path and its label can carry
FilterMarks == {"filter-dimmed", "filter-hidden"}

\* variant: the classes of an earlier filter are not removed first
EdgeClass_M(old, e, matching, dimClass) ==
  IF e[1] \in matching /\ e[2] \in matching THEN old ELSE old \cup {dimClass}

\* the filter classes applyFilter leaves on an edge that carried old: both
\* are removed, then dimClass is added unless both endpoints match
EdgeClass(old, e, matching, dimClass) ==
  IF e[1] \in matching /\ e[2] \in matching
  THEN old \ FilterMarks
  ELSE (old \ FilterMarks) \cup {dimClass}

\* the state applyFilter leaves, given the toggle state it starts from
ApplyFilterEffect(out, toggle) ==
  LET dimClass == IF out.hideMode THEN "filter-hidden" ELSE "filter-dimmed"
  IN /\ hung' = (out.kind = "hangs")
     /\ currentParentMap' = out.parentMap
     /\ UNCHANGED <<currentGraph, currentRootId>>
     /\ IF out.kind = "applied"
        THEN /\ nodeMark' = [id \in domNodes |->
                               IF id \notin DOMAIN currentGraph.nodes THEN nodeMark[id]
                               ELSE IF id \in out.matching THEN "filter-match"
                               ELSE dimClass]
             /\ edgeMark' = [e \in domEdges |->
                               EdgeClass(edgeMark[e], e, out.matching, dimClass)]
             /\ hideToggle' = out.hideMode
             /\ filterSummary' = IF out.matching = {} THEN NULL
                                 ELSE [count |-> Cardinality(out.matching)]
        ELSE IF out.kind = "reset"
        THEN /\ nodeMark' = [id \in domNodes |-> ""]
             /\ edgeMark' = [e \in domEdges |-> edgeMark[e] \ FilterMarks]
             /\ hideToggle' = toggle
             /\ filterSummary' = NULL
        ELSE /\ hideToggle' = toggle
             /\ UNCHANGED <<nodeMark, edgeMark, filterSummary>>

\* the value applyFilter returns: NULL, or [ids |-> matching set]
FilterReturn(out) == IF out.kind = "applied" THEN [ids |-> out.matching] ELSE NULL

\* clearFilter()
ClearFilter ==
  /\ nodeMark' = [id \in domNodes |-> ""]
  /\ edgeMark' = [e \in domEdges |-> edgeMark[e] \ FilterMarks]
  /\ ClearSearchBar
  /\ UNCHANGED <<graphVars, hung>>

\* ------------------------------------------------------------------------
\* Search bar events (setupPlanSearch)
\* ------------------------------------------------------------------------
MaxFilterOps == 3

SearchEvent ==
  /\ ~hung
  /\ containerShown
  /\ filterOps < MaxFilterOps
  /\ filterOps' = filterOps + 1
  /\ UNCHANGED <<loads, cameraOps, rect, queryVars, layoutVars, containerShown, domNodes, domEdges,
                 rafVars, viewportState>>

HasHide(query) == \E i \in 1..Len(query) : query[i] = HideModifier

\* Enter in the search input while its text is typed: applyCurrentFilter()
PressEnter(typed) ==
  /\ SearchEvent
  /\ searchInput.shown
  /\ LET query == typed
         Commit(fullQuery, spec, out) ==
           IF query = <<>> \/ spec.orGroups = <<>>
           THEN /\ lastEvent' = [op |-> "enter", query |-> fullQuery, applied |-> FALSE,
                                 ret |-> NULL]
                /\ searchInput' = [searchInput EXCEPT !.value = typed]
                /\ UNCHANGED <<graphVars, camera, nodeMark, edgeMark, pills, hideToggle,
                               filterSummary, hung>>
           ELSE /\ pills' = renderFilterPills(spec)
                /\ searchInput' = [value |-> query, shown |-> FALSE]
                /\ ApplyFilterEffect(out, hideToggle)
                /\ camera' = IF out.kind = "applied" /\ out.matching # {}
                             THEN fitToNodes(camera, out.matching, currentNodePositions,
                                             rect, currentContentSize)
                             ELSE camera
                /\ lastEvent' = [op |-> "enter", query |-> fullQuery, applied |-> TRUE,
                                 ret |-> FilterReturn(out)]
         Apply(fullQuery) ==
           Commit(fullQuery, parseFilterQuery(fullQuery), FilterOutcome(fullQuery))
     IN Apply(IF hideToggle /\ ~HasHide(query) THEN Append(query, HideModifier) ELSE query)

\* Escape in the search input, or the clear button
PressEscape ==
  /\ SearchEvent
  /\ searchInput.shown
  /\ ClearFilter
  /\ lastEvent' = [op |-> "escape"]
  /\ UNCHANGED camera

ClickClear ==
  /\ SearchEvent
  /\ ClearFilter
  /\ lastEvent' = [op |-> "clear-filter"]
  /\ UNCHANGED camera

\* a click on the search area while pills are shown: switchToEditMode()
ClickSearchArea ==
  /\ SearchEvent
  /\ pills # <<>>
  /\ pills' = <<>>
  /\ searchInput' = [value |-> getQueryFromPills(pills), shown |-> TRUE]
  /\ lastEvent' = [op |-> "edit"]
  /\ UNCHANGED <<graphVars, camera, nodeMark, edgeMark, hideToggle, filterSummary, hung>>

\* the children left after the pill at index i and one adjacent operator
\* element are removed: the previous sibling if it is an operator, else the
\* next sibling if it is one
RemovePillAt(children, i) ==
  LET prevIsOp == i > 1 /\ children[i - 1].cls = "filter-operator"
      nextIsOp == i < Len(children) /\ children[i + 1].cls = "filter-operator"
      drop == IF prevIsOp THEN {i - 1, i} ELSE IF nextIsOp THEN {i, i + 1} ELSE {i}
      keep == SetToSortedSeq((1..Len(children)) \ drop)
  IN [k \in 1..Len(keep) |-> children[keep[k]]]

\* a click on the remove button of the pill at index i
RemovePill(i) ==
  /\ SearchEvent
  /\ i \in 1..Len(pills)
  /\ pills[i].cls = "filter-pill"
  /\ LET Reapply(rest, query, fullQuery, out) ==
           IF query # <<>>
           THEN /\ pills' = rest
                /\ ApplyFilterEffect(out, hideToggle)
                /\ lastEvent' = [op |-> "remove", index |-> i, before |-> pills,
                                 query |-> fullQuery, ret |-> FilterReturn(out)]
                /\ UNCHANGED <<searchInput, camera>>
           ELSE /\ ClearFilter
                /\ lastEvent' = [op |-> "remove", index |-> i, before |-> pills,
                                 query |-> <<>>, ret |-> NULL]
                /\ UNCHANGED camera
         Full(rest, query, fullQuery) ==
           Reapply(rest, query, fullQuery, FilterOutcome(fullQuery))
         Query(rest, query) ==
           Full(rest, query, IF hideToggle THEN Append(query, HideModifier) ELSE query)
         Removed(rest) == Query(rest, getQueryFromPills(rest))
     IN Removed(RemovePillAt(pills, i))

\* a click on the dim/hide toggle; typed is the text of the search input if
\* it is on display
ToggleHide(typed) ==
  /\ SearchEvent
  /\ searchInput.shown \/ typed = searchInput.value
  /\ LET toggled == ~hideToggle
         Reapply(fullQuery, out) ==
           /\ ApplyFilterEffect(out, toggled)
           /\ lastEvent' = [op |-> "toggle", query |-> fullQuery, ret |-> FilterReturn(out)]
         Full(fullQuery) == Reapply(fullQuery, FilterOutcome(fullQuery))
         Toggle(query) ==
           IF query # <<>>
           THEN Full(IF toggled THEN Append(query, HideModifier) ELSE query)
           ELSE /\ hideToggle' = toggled
                /\ lastEvent' = [op |-> "toggle", query |-> <<>>, ret |-> NULL]
                /\ UNCHANGED <<graphVars, nodeMark, edgeMark, filterSummary, hung>>
     IN /\ Toggle(IF searchInput.shown /\ typed # <<>>
                  THEN typed ELSE getQueryFromPills(pills))
        /\ searchInput' = [searchInput EXCEPT !.value = typed]
        /\ UNCHANGED <<pills, camera>>


\* ------------------------------------------------------------------------
\* Camera events (toolbar, keyboard, wheel, pointer, minimap, zoomToNode)
\* ------------------------------------------------------------------------
MaxCameraOps == 2

\* variant: a camera event also clears the filter classes of the nodes
CameraEvent_M ==
  /\ ~hung
  /\ cameraOps < MaxCameraOps
  /\ cameraOps' = cameraOps + 1
  /\ nodeMark' = [id \in domNodes |-> ""]
  /\ UNCHANGED <<loads, filterOps, rect, queryVars, graphVars, layoutVars, containerShown, domNodes,
                 domEdges, edgeMark, searchVars, rafVars, hung>>

CameraEvent ==
  /\ ~hung
  /\ cameraOps < MaxCameraOps
  /\ cameraOps' = cameraOps + 1
  /\ UNCHANGED <<loads, filterOps, rect, queryVars, graphVars, layoutVars, domVars, searchVars,
                 rafVars, hung>>

\* + / - keys and the toolbar zoom buttons: zoomToCenter(ZOOM_STEP) and
\* zoomToCenter(1 / ZOOM_STEP), ZOOM_STEP = 1.1
ZoomStep(zoomIn) ==
  /\ CameraEvent
  /\ containerShown
  /\ camera' = IF zoomIn THEN zoomToCenter(camera, 11, 10, rect, currentContentSize)
               ELSE zoomToCenter(camera, 10, 11, rect, currentContentSize)
  /\ lastEvent' = [op |-> "zoomToCenter", zoomIn |-> zoomIn]
  /\ UNCHANGED viewportState

\* 0 / f keys, the fit button and double click: fitToView(true)
FitView ==
  /\ CameraEvent
  /\ containerShown
  /\ camera' = fitToView(camera, rect, currentContentSize)
  /\ lastEvent' = [op |-> "fitToView"]
  /\ UNCHANGED viewportState

\* the Home key
KeyHome ==
  /\ CameraEvent
  /\ containerShown
  /\ camera' = clampCameraToBounds([x |-> 0, y |-> 0, zoom |-> camera.zoom],
                                   rect, currentContentSize)
  /\ lastEvent' = [op |-> "home"]
  /\ UNCHANGED viewportState

\* the arrow keys: panBy(+-PAN_STEP, 0) and panBy(0, +-PAN_STEP)
KeyArrow(dx, dy) ==
  /\ CameraEvent
  /\ containerShown
  /\ camera' = panBy(camera, dx, dy, rect, currentContentSize)
  /\ lastEvent' = [op |-> "panBy", dx |-> dx, dy |-> dy]
  /\ UNCHANGED viewportState

\* a wheel tick with the mouse at (mouseX, mouseY) px of the canvas
Wheel(mouseX, mouseY, deltaYPositive) ==
  /\ CameraEvent
  /\ containerShown
  /\ camera' = handleWheel(camera, mouseX, mouseY, deltaYPositive, rect, currentContentSize)
  /\ lastEvent' = [op |-> "wheel", mouseX |-> mouseX, mouseY |-> mouseY,
                   before |-> camera]
  /\ UNCHANGED viewportState

\* pointer down at (clientX, clientY) outside a node with metrics
PointerDown(clientX, clientY) ==
  /\ CameraEvent
  /\ containerShown
  /\ viewportState' = [isPanning |-> TRUE, startX |-> clientX, startY |-> clientY,
                       startCameraX |-> camera.x, startCameraY |-> camera.y,
                       pointerId |-> <<1>>]
  /\ lastEvent' = [op |-> "pointerdown"]
  /\ UNCHANGED camera

\* pointer move of the captured pointer to (clientX, clientY)
PointerMove(clientX, clientY) ==
  /\ CameraEvent
  /\ containerShown
  /\ viewportState.isPanning
  /\ camera' = clampCameraToBounds(
       [x |-> viewportState.startCameraX - DivZoom(clientX - viewportState.startX, camera.zoom),
        y |-> viewportState.startCameraY - DivZoom(clientY - viewportState.startY, camera.zoom),
        zoom |-> camera.zoom], rect, currentContentSize)
  /\ lastEvent' = [op |-> "pointermove"]
  /\ UNCHANGED viewportState

PointerUp ==
  /\ CameraEvent
  /\ containerShown
  /\ viewportState.isPanning
  /\ viewportState' = [viewportState EXCEPT !.isPanning = FALSE, !.pointerId = NULL]
  /\ lastEvent' = [op |-> "pointerup"]
  /\ UNCHANGED camera

\* a click on the minimap whose position maps to the world point
\* (clickX, clickY) px: the camera is centred on it
MinimapClick(clickX, clickY) ==
  /\ CameraEvent
  /\ containerShown
  /\ camera' = clampCameraToBounds(
       [x |-> Milli(clickX) - DivZoom(rect.width, camera.zoom) \div 2,
        y |-> Milli(clickY) - DivZoom(rect.height, camera.zoom) \div 2,
        zoom |-> camera.zoom], rect, currentContentSize)
  /\ lastEvent' = [op |-> "minimap"]
  /\ UNCHANGED viewportState

\* zoomToNode(planNodeId): false when the node element or its position is
\* missing
\* variant: only the stored position is looked up
NodeFound_M(planNodeId) == planNodeId \in DOMAIN currentNodePositions

\* the two early returns of zoomToNode: the node element must exist and the
\* id must have a stored position
NodeFound(planNodeId) ==
  planNodeId \in domNodes /\ planNodeId \in DOMAIN currentNodePositions

ZoomToNode(planNodeId) ==
  /\ CameraEvent
  /\ LET found == NodeFound(planNodeId)
     IN /\ camera' = IF found
                     THEN zoomToNodeCamera(currentNodePositions[planNodeId], rect,
                                           currentContentSize)
                     ELSE camera
        /\ lastEvent' = [op |-> "zoomToNode", id |-> planNodeId, ret |-> found,
                         before |-> camera]
  /\ UNCHANGED viewportState


\* ------------------------------------------------------------------------
\* Input documents
\* ------------------------------------------------------------------------
Node(id, name, children) == [id |-> id, name |-> name, children |-> children]

Topology(rootId, nodes) == [parses |-> TRUE, rootId |-> rootId, nodes |-> nodes]

Profile(topology, entries) ==
  [execution |-> TRUE, topology |-> topology, entries |-> entries]

\* one fragment with one pipeline holding the given operator entries
OneFragment(ops) ==
  <<[isFragment |-> TRUE, pipes |-> <<[isPipeline |-> TRUE, ops |-> ops]>>]>>

OpEntry(opName, planNodeId, metrics) ==
  [isOp |-> TRUE, opName |-> opName, planNodeId |-> planNodeId, metrics |-> metrics]

NoMetrics == Metrics(NULL, NULL, NULL, "")

\* Tree topologies with n nodes: node i > 1 hangs under node pv[i] < i; ids
\* ascend or descend with i; children are listed in ascending or descending
\* order
MaxNodes == 5

ParentVectors(n) == {pv \in [2..n -> 1..n] : \A i \in 2..n : pv[i] < i}

TreeTopology(n, pv, descendingIds, descendingChildren) ==
  LET idOf(i) == IF descendingIds THEN n - i ELSE i - 1
      kids(i) == SetToSortedSeq({j \in 2..n : pv[j] = i})
      ordered(i) == IF descendingChildren
                    THEN [k \in 1..Len(kids(i)) |-> kids(i)[Len(kids(i)) + 1 - k]]
                    ELSE kids(i)
      childIds(i) == [k \in 1..Len(ordered(i)) |-> idOf(ordered(i)[k])]
  IN Topology(idOf(1), [i \in 1..n |-> Node(idOf(i), "PROJECT", childIds(i))])

TreeTopologies ==
  UNION {{TreeTopology(n, pv, d1, d2) : pv \in ParentVectors(n), d1 \in BOOLEAN, d2 \in BOOLEAN}
         : n \in 1..MaxNodes}

TreeProfiles == {Profile(t, <<>>) : t \in TreeTopologies}

\* the single-selector queries on a node id
LineageQueries ==
  {<<NodeTerm(up, id, down)>> : up \in BOOLEAN, id \in 0..MaxNodes, down \in BOOLEAN}

\* ------------------------------------------------------------------------
\* Reference definitions over a topology, independent of the traversals
\* ------------------------------------------------------------------------
\* the child relation of a graph object: pairs <<parent, child>>
ChildPairs(graph) ==
  {pc \in (DOMAIN graph) \X (DOMAIN graph) :
     \E i \in DOMAIN graph[pc[1]].children : graph[pc[1]].children[i] = pc[2]}

RECURSIVE Closure(_, _)
\* the least set holding S and closed under the child relation
Closure(graph, S) ==
  LET next == S \cup {pc[2] : pc \in {qc \in ChildPairs(graph) : qc[1] \in S}}
  IN IF next = S THEN S ELSE Closure(graph, next)

Descendants(graph, n) == Closure(graph, {n})

Ancestors(graph, n) == {a \in DOMAIN graph : n \in Closure(graph, {a})}

\* every node reachable from the root is listed once, by one parent, and the
\* root by none; every listed child exists
TreeShaped(graph, root) ==
  /\ root \in DOMAIN graph
  /\ \A p \in DOMAIN graph : \A i \in DOMAIN graph[p].children :
       graph[p].children[i] \in DOMAIN graph
  /\ \A c \in Closure(graph, {root}) :
       Cardinality({pi \in (DOMAIN graph) \X (1..Cardinality(DOMAIN graph)) :
                      /\ pi[2] \in DOMAIN graph[pi[1]].children
                      /\ graph[pi[1]].children[pi[2]] = c})
         = (IF c = root THEN 0 ELSE 1)

\* ------------------------------------------------------------------------
\* Specification SpecTree: one tree-shaped plan is loaded and single node
\* selectors are committed
\* ------------------------------------------------------------------------
DefaultRect == [width |-> 800, height |-> 600]

FirstLoad(p) == currentGraph = NULL /\ LoadProfile(p)

InitTree == InitView(DefaultRect)

NextTree ==
  \/ \E p \in TreeProfiles : FirstLoad(p)
  \/ \E q \in LineageQueries : PressEnter(q)

SpecTree == InitTree /\ [][NextTree]_vars

\* the state holds a completely rendered tree-shaped plan
TreeRendered ==
  /\ currentGraph # NULL
  /\ currentRootId # NULL
  /\ TreeShaped(currentGraph.nodes, currentRootId[1])
  /\ DOMAIN currentNodePositions = DOMAIN currentGraph.nodes

SubtreeLeft(n) ==
  SetMin({currentNodePositions[d].x : d \in Descendants(currentGraph.nodes, n)})

SubtreeRight(n) ==
  SetMax({currentNodePositions[d].x + NODE_WIDTH : d \in Descendants(currentGraph.nodes, n)})

ChildSet(n) == Range(currentGraph.nodes[n].children)

\* C8: in the layout of a tree-shaped plan, the horizontal spans of sibling
\* nodes (their boxes and the extents of their subtrees) do not overlap, and
\* the horizontal centre of every parent lies within the span, from its left
\* edge to its left edge plus the subtree width, that its own subtree occupies
C8_LayoutSpans ==
  TreeRendered =>
    \A p \in DOMAIN currentGraph.nodes :
      /\ \A a \in ChildSet(p) : \A b \in ChildSet(p) \ {a} :
           /\ \/ currentNodePositions[a].x + NODE_WIDTH <= currentNodePositions[b].x
              \/ currentNodePositions[b].x + NODE_WIDTH <= currentNodePositions[a].x
           /\ \/ SubtreeRight(a) <= SubtreeLeft(b)
              \/ SubtreeRight(b) <= SubtreeLeft(a)
      /\ 2 * SubtreeLeft(p) <= 2 * currentNodePositions[p].x + NODE_WIDTH
      /\ 2 * currentNodePositions[p].x + NODE_WIDTH
           <= 2 * (SubtreeLeft(p) + currentGraph.nodes[p]._width)
      /\ SubtreeRight(p) <= SubtreeLeft(p) + currentGraph.nodes[p]._width

\* a rendered tree in which a node with two children has a child that itself
\* has two children
C8_Witness ==
  /\ TreeRendered
  /\ \E p \in DOMAIN currentGraph.nodes : \E a \in ChildSet(p) :
       /\ Cardinality(ChildSet(p)) >= 2
       /\ Cardinality(ChildSet(a)) >= 2

\* the event just handled is Enter committing the single node selector of
\* node n, with the given direction markers, on a rendered tree where n is
\* reachable from the root
LineageCommitted(up, n, down) ==
  /\ lastEvent.op = "enter"
  /\ lastEvent.applied
  /\ lastEvent.query = <<NodeTerm(up, n, down)>>
  /\ TreeRendered
  /\ n \in Closure(currentGraph.nodes, {currentRootId[1]})

\* C9: on a tree-shaped plan, for a node N reachable from the root, '+node=N'
\* matches exactly N and its ancestors, 'node=N+' exactly N and its
\* descendants, and '+node=N+' exactly the union of the two
C9_Lineage ==
  \A up \in BOOLEAN, down \in BOOLEAN, n \in 0..MaxNodes :
    (LineageCommitted(up, n, down) /\ (up \/ down)) =>
      /\ lastEvent.ret # NULL
      /\ lastEvent.ret.ids =
           (IF up THEN Ancestors(currentGraph.nodes, n) ELSE {}) \cup
           (IF down THEN Descendants(currentGraph.nodes, n) ELSE {})

\* '+node=N+' committed for a node that has a grandparent and a child
C9_Witness ==
  \E n \in 0..MaxNodes :
    /\ LineageCommitted(TRUE, n, TRUE)
    /\ Cardinality(Ancestors(currentGraph.nodes, n)) >= 3
    /\ Cardinality(Descendants(currentGraph.nodes, n)) >= 2


\* ------------------------------------------------------------------------
\* Specification SpecLoad: profiles that load and profiles that fail at
\* each stage are loaded one after another
\* ------------------------------------------------------------------------
Ms(num, dec) == TimeStr(num, dec, "ms")

\* EXCHANGE 0 -> HASH_JOIN 1 -> OLAP_SCAN 2, OLAP_SCAN 3
GoodProfileA ==
  Profile(Topology(0, <<Node(0, "EXCHANGE", <<1>>), Node(1, "HASH_JOIN", <<2, 3>>),
                        Node(2, "OLAP_SCAN", <<>>), Node(3, "OLAP_SCAN", <<>>)>>),
          OneFragment(<<OpEntry("HASH_JOIN_PROBE", 1, Metrics(Ms(2, 0), NULL, NULL, "")),
                        OpEntry("OLAP_SCAN", 2, Metrics(Ms(1, 0), Ms(1, 0), NULL, "Orders"))>>))

\* PROJECT 6 -> AGGREGATE 5
GoodProfileB ==
  Profile(Topology(6, <<Node(5, "AGGREGATE", <<>>), Node(6, "PROJECT", <<5>>)>>),
          OneFragment(<<OpEntry("AGGREGATE", 5, Metrics(Ms(3, 0), NULL, NULL, ""))>>))

\* rootId names no node
RootMissingProfile ==
  Profile(Topology(9, <<Node(7, "SORT", <<8>>), Node(8, "OLAP_SCAN", <<>>)>>), <<>>)

\* node 1, reached after node 0, has no name: getNodeClass throws on it
NamelessProfile ==
  Profile(Topology(0, <<Node(0, "UNION", <<1, 2>>), Node(1, UNDEFINED_NAME, <<>>),
                        Node(2, "PROJECT", <<>>)>>), <<>>)

\* node 4 is not under the root, has no name and has a total time
PanelThrowsProfile ==
  Profile(Topology(3, <<Node(3, "SORT", <<>>), Node(4, UNDEFINED_NAME, <<>>)>>),
          OneFragment(<<OpEntry("SORT", 4, Metrics(Ms(1, 0), NULL, NULL, ""))>>))

NoExecutionProfile == [execution |-> FALSE, topology |-> NULL, entries |-> <<>>]
NoTopologyProfile == [execution |-> TRUE, topology |-> NULL, entries |-> <<>>]
UnparsableProfile == [execution |-> TRUE, topology |-> [parses |-> FALSE], entries |-> <<>>]

LoadProfiles ==
  {GoodProfileA, GoodProfileB, RootMissingProfile, NamelessProfile, PanelThrowsProfile,
   NoExecutionProfile, NoTopologyProfile, UnparsableProfile}

InitLoad == InitView(DefaultRect)

NextLoad ==
  \/ \E p \in LoadProfiles : LoadProfile(p)
  \/ ClearQuery
  \/ AnimationFrame
  \/ FitView

SpecLoad == InitLoad /\ [][NextLoad]_vars

\* the stored graph, root, parent map, positions and content size are those
\* that loading one profile produces
StateOfOneProfile ==
  /\ currentGraph # NULL
  /\ currentRootId # NULL
  /\ currentRootId[1] \in DOMAIN currentGraph.nodes
  /\ LET lay == calculateTreeLayout(currentRootId[1], currentGraph.nodes)
     IN /\ currentNodePositions = PaddedPositions(lay.positions, DOMAIN lay.positions)
        /\ currentContentSize = [width |-> lay.width + PADDING * 2,
                                 height |-> lay.height + PADDING * 2]
  /\ \/ currentParentMap = NULL
     \/ currentParentMap = [map |-> buildParentMap(currentGraph.nodes, currentRootId[1])]

StateOfNoProfile ==
  /\ currentGraph = NULL
  /\ currentRootId = NULL
  /\ currentParentMap = NULL
  /\ currentNodePositions = EmptyMap
  /\ currentContentSize = [width |-> 0, height |-> 0]

\* C1: the stored graph, root id, parent-map cache, node positions and
\* content size always belong to the same profile, also after a load that
\* fails (the statement of the specification; the code violates it)
C1_SameProfile == StateOfNoProfile \/ StateOfOneProfile

\* the step is a load that raises the "Root node not found" alert while a
\* plan is on display
RootMissingLoad ==
  /\ containerShown
  /\ loads' = loads + 1
  /\ lastEvent' = [op |-> "load", result |-> "root-missing"]

\* C2: a load whose topology names a root id absent from its node list
\* raises the alert and leaves the graph, root id, parent map, positions,
\* content size and canvas of the previously loaded profile unchanged (the
\* statement of the specification; the code violates it)
C2_RootMissingKeepsState ==
  [][RootMissingLoad =>
       UNCHANGED <<currentGraph, currentRootId, currentParentMap, currentNodePositions,
                   currentContentSize, domNodes, domEdges>>]_vars


\* ------------------------------------------------------------------------
\* Specification SpecFilterEval: a plan is loaded and one query of up to
\* MaxTerms terms is committed
\* ------------------------------------------------------------------------
\* EXCHANGE 0 -> HASH_JOIN 1 -> (OLAP_SCAN 2 on Orders, PROJECT 3 -> OLAP_SCAN 4
\* on customer)
PlanTreeProfile ==
  Profile(Topology(0, <<Node(0, "EXCHANGE", <<1>>), Node(1, "HASH_JOIN", <<2, 3>>),
                        Node(2, "OLAP_SCAN", <<>>), Node(3, "PROJECT", <<4>>),
                        Node(4, "OLAP_SCAN", <<>>)>>),
          OneFragment(<<OpEntry("OLAP_SCAN", 2, Metrics(Ms(1, 0), Ms(1, 0), NULL, "Orders")),
                        OpEntry("OLAP_SCAN", 4, Metrics(Ms(2, 0), Ms(1, 0), NULL, "customer")),
                        OpEntry("HASH_JOIN_PROBE", 1, Metrics(Ms(3, 0), NULL, NULL, ""))>>))

\* node 3 lists the root among its children
CyclicProfile ==
  Profile(Topology(0, <<Node(0, "EXCHANGE", <<3>>), Node(3, "HASH_JOIN", <<0, 2>>),
                        Node(2, "OLAP_SCAN", <<>>)>>),
          OneFragment(<<OpEntry("OLAP_SCAN", 2, Metrics(Ms(1, 0), Ms(1, 0), NULL, "Orders"))>>))

\* node 3 is listed by node 1 and by node 2
DiamondProfile ==
  Profile(Topology(0, <<Node(0, "UNION", <<1, 2>>), Node(1, "HASH_JOIN", <<3>>),
                        Node(2, "PROJECT", <<3>>), Node(3, "OLAP_SCAN", <<>>)>>),
          OneFragment(<<OpEntry("OLAP_SCAN", 3, Metrics(Ms(1, 0), Ms(1, 0), NULL, "Orders"))>>))

FilterProfiles == {PlanTreeProfile, CyclicProfile, DiamondProfile}

MaxTerms == 3

EvalTerms ==
  {NodeTerm(FALSE, 1, TRUE), NodeTerm(TRUE, 3, FALSE), NodeTerm(FALSE, 2, FALSE),
   TypeTerm("SCAN"), TypeTerm("join"), TableTerm("Orders")}

EvalOps == {Op(","), Op("&")}

\* terms ts joined by the operators ops
Interleave(ts, ops) ==
  [k \in 1..(2 * Len(ts) - 1) |-> IF k % 2 = 1 THEN ts[(k + 1) \div 2] ELSE ops[k \div 2]]

QueriesOf(n) ==
  {Interleave(ts, ops) : ts \in [1..n -> EvalTerms], ops \in [1..(n - 1) -> EvalOps]}

\* the word operators, a text with a doubled comma, a text with a term that
\* parses to nothing
WordQueries ==
  {<<TypeTerm("scan"), Op("or"), NodeTerm(FALSE, 1, FALSE), Op("and"), TypeTerm("Join")>>,
   <<TypeTerm("scan"), Op("and"), TableTerm("Orders"), Op("or"), NodeTerm(TRUE, 3, FALSE)>>,
   <<NodeTerm(FALSE, 2, FALSE), Op(","), Op(","), TypeTerm("Join")>>,
   <<TypeTerm("sort"), Op("&"), TypeTerm("scan")>>}

EvalQueries == UNION {QueriesOf(n) : n \in 1..MaxTerms} \cup WordQueries

InitFilterEval == InitView(DefaultRect)

NextFilterEval ==
  \/ \E p \in FilterProfiles : FirstLoad(p)
  \* text can be typed only while the input is on display (the guard of PressEnter)
  \/ searchInput.shown /\ \E q \in EvalQueries : PressEnter(q)

SpecFilterEval == InitFilterEval /\ [][NextFilterEval]_vars

\* the indexes of the term tokens of a query
TermIndexes(query) == {i \in 1..Len(query) : IsTerm(query[i])}

\* the terms i and j stand in the same OR group: no ',' or 'or' between them
SameOrGroup(query, i, j) ==
  \A k \in (Min(i, j))..(Max(i, j)) : ~IsOrOp(query[k])

\* what applyFilter returns for the query made of the one term tok
TermNodes(tok) ==
  LET pm == [map |-> buildParentMap(currentGraph.nodes, currentRootId[1])]
  IN EvalGroups(parseFilterQuery(<<tok>>).orGroups, {}, currentGraph.nodes, pm).nodes

\* the event just handled is Enter on a query whose terms are all valid and
\* whose evaluation returned a set
ValidQueryCommitted ==
  /\ lastEvent.op = "enter"
  /\ lastEvent.applied
  /\ lastEvent.ret # NULL
  /\ \A i \in TermIndexes(lastEvent.query) : parseSelector(lastEvent.query[i]) # NULL

\* C4: for a query whose terms are all valid, the set applyFilter returns is
\* the union over the OR groups of the intersection of the node sets of the
\* terms of the group ('&' binds tighter than ',')
C4_UnionOfIntersections ==
  ValidQueryCommitted =>
    lastEvent.ret.ids =
      {n \in DOMAIN currentGraph.nodes :
         \E i \in TermIndexes(lastEvent.query) :
           \A j \in TermIndexes(lastEvent.query) :
             SameOrGroup(lastEvent.query, i, j) => n \in TermNodes(lastEvent.query[j])}

\* a query 'a & b, c' whose result differs from what 'a & (b, c)' would give
C4_Witness ==
  /\ ValidQueryCommitted
  /\ Len(lastEvent.query) = 5
  /\ IsAndOp(lastEvent.query[2])
  /\ IsOrOp(lastEvent.query[4])
  /\ lastEvent.ret.ids # {}
  /\ lastEvent.ret.ids #
       TermNodes(lastEvent.query[1]) \cap
         (TermNodes(lastEvent.query[3]) \cup TermNodes(lastEvent.query[5]))

\* C7: filter evaluation terminates on every topology, including one with a
\* cycle or with a node listed by two parents: no handler is left running
\* for ever (the statement of the specification; the code violates it)
C7_EvaluationTerminates == ~hung


\* ------------------------------------------------------------------------
\* Specification SpecFilterUI: the search bar of a loaded plan is operated
\* (Enter, Escape, clear, click to edit, pill removal, dim/hide toggle)
\* ------------------------------------------------------------------------
TermA == NodeTerm(FALSE, 3, TRUE)
TermB == TypeTerm("scan")
TermC == TableTerm("orders")

UiQueries ==
  {<<>>,
   <<TermB>>,
   <<TypeTerm("sort")>>,
   <<TermA, Op(","), TermB, Op("&"), TermC>>,
   <<TermA, Op("&"), TermB, Op(","), TermC>>,
   <<TermB, HideModifier>>}

InitFilterUI == InitView(DefaultRect)

NextFilterUI ==
  \/ FirstLoad(PlanTreeProfile)
  \/ \E q \in UiQueries : PressEnter(q)
  \/ PressEscape
  \/ ClickClear
  \/ ClickSearchArea
  \/ \E i \in 1..(2 * MaxTerms) : RemovePill(i)
  \/ \E q \in UiQueries \cup {searchInput.value} : ToggleHide(q)

SpecFilterUI == InitFilterUI /\ [][NextFilterUI]_vars

\* the terms of an AND group in pill order
GroupTerms(group) ==
  [i \in 1..Len(group.nodeSelectors) |-> group.nodeSelectors[i]]
  \o [i \in 1..Len(group.typeFilters) |->
        [selectorType |-> "type", typeFilter |-> group.typeFilters[i]]]
  \o [i \in 1..Len(group.tableFilters) |->
        [selectorType |-> "table", tableFilter |-> group.tableFilters[i]]]

\* the OR groups of a query text, each as the sequence of its terms
TermGroups(query) ==
  LET groups == parseFilterQuery(query).orGroups
  IN [g \in 1..Len(groups) |-> GroupTerms(groups[g])]

\* the pill elements among children[1..i]
PillsUpTo(children, i) == {k \in 1..i : children[k].cls = "filter-pill"}

RECURSIVE WithoutTerm(_, _)
\* the term groups with the k-th term (counting through the groups in
\* order) taken out, and its group dropped if nothing is left in it
WithoutTerm(groups, k) ==
  IF groups = <<>> THEN <<>>
  ELSE IF k > Len(Head(groups)) THEN <<Head(groups)>> \o WithoutTerm(Tail(groups), k - Len(Head(groups)))
  ELSE LET g == Head(groups)
           rest == [j \in 1..(Len(g) - 1) |-> IF j < k THEN g[j] ELSE g[j + 1]]
       IN (IF rest = <<>> THEN <<>> ELSE <<rest>>) \o Tail(groups)

\* the term groups the specification expects after the removal just handled
ExpectedAfterRemoval ==
  WithoutTerm(TermGroups(getQueryFromPills(lastEvent.before)),
              Cardinality(PillsUpTo(lastEvent.before, lastEvent.index)))

\* no node and no edge carries a filter class
Unfiltered ==
  /\ \A id \in DOMAIN nodeMark : nodeMark[id] = ""
  /\ \A e \in DOMAIN edgeMark : edgeMark[e] = {}

\* C5: after the remove button of a pill is clicked, the pills on display and
\* the query the filter is re-applied with are the original query with that
\* term taken out and the grouping of the other terms kept (removing B from
\* 'A, B & C' leaves 'A, C'); removing the last term returns the bar to Idle
\* (the statement of the specification; the code violates it)
C5_RemovePillKeepsGrouping ==
  lastEvent.op = "remove" =>
    IF ExpectedAfterRemoval = <<>>
    THEN pills = <<>> /\ searchInput = [value |-> <<>>, shown |-> TRUE] /\ Unfiltered
    ELSE /\ TermGroups(getQueryFromPills(pills)) = ExpectedAfterRemoval
         /\ TermGroups(lastEvent.query) = ExpectedAfterRemoval

\* C6: when Enter is pressed on a text that is empty or parses to no OR
\* group, the view is left unfiltered, whatever the filter state before
\* (the statement of the specification; the code violates it)
C6_EmptyCommitLeavesUnfiltered ==
  (lastEvent.op = "enter" /\ ~lastEvent.applied) => Unfiltered


\* ------------------------------------------------------------------------
\* Specification SpecCamera: a plan is on display in a canvas of fixed size
\* and the camera is operated
\* ------------------------------------------------------------------------
\* a canvas larger than the plans and one smaller than them
Viewports == {DefaultRect, [width |-> 100, height |-> 100]}

CameraProfiles == {PlanTreeProfile, GoodProfileB}

\* pointer positions in px of the canvas, minimap clicks as world points
PointerPoints == {<<0, 0>>, <<90, 70>>}
WorldPoints == {<<0, 0>>, <<400, 500>>}

CameraQueries == {<<TermB>>, <<NodeTerm(FALSE, 9, FALSE)>>}

InitCamera == \E r \in Viewports : InitView(r)

NextCamera ==
  \/ \E p \in CameraProfiles : FirstLoad(p)
  \/ AnimationFrame
  \/ \E zoomIn \in BOOLEAN : ZoomStep(zoomIn)
  \/ FitView
  \/ KeyHome
  \/ \E d \in {<<PAN_STEP, 0>>, <<-PAN_STEP, 0>>, <<0, PAN_STEP>>, <<0, -PAN_STEP>>} :
       KeyArrow(d[1], d[2])
  \/ \E pt \in PointerPoints, deltaYPositive \in BOOLEAN : Wheel(pt[1], pt[2], deltaYPositive)
  \/ \E pt \in PointerPoints : PointerDown(pt[1], pt[2])
  \/ \E pt \in PointerPoints : PointerMove(pt[1], pt[2])
  \/ PointerUp
  \/ \E pt \in WorldPoints : MinimapClick(pt[1], pt[2])
  \/ \E id \in {0, 5, 9} : ZoomToNode(id)
  \/ \E q \in CameraQueries : PressEnter(q)

SpecCamera == InitCamera /\ [][NextCamera]_vars

\* the extent of the canvas in world units at the zoom of cam
ViewportWorld(cam, r) ==
  [width |-> DivZoom(r.width, cam.zoom), height |-> DivZoom(r.height, cam.zoom)]

\* v lies between the bounds clampCameraToBounds computes for one axis: half
\* the content may leave the canvas on either side, and a canvas larger than
\* the content adds half the difference as a centring margin
WithinAxisBounds(v, viewport, content) ==
  LET margin == IF viewport > content THEN (viewport - content) \div 2 ELSE 0
  IN /\ -(content \div 2) - margin <= v
     /\ v <= content + content \div 2 - viewport + margin

WithinClampBounds(cam, r, content) ==
  /\ WithinAxisBounds(cam.x, ViewportWorld(cam, r).width, Milli(content.width))
  /\ WithinAxisBounds(cam.y, ViewportWorld(cam, r).height, Milli(content.height))
  /\ MIN_ZOOM <= cam.zoom
  /\ cam.zoom <= MAX_ZOOM

RankTimes ==
  {NULL, TimeStr(1231, 3, "ms"), TimeStr(1234, 3, "ms"), Ms(2, 0), TimeStr(500, 0, "us")}

RankEntries(times) ==
  [i \in 1..Len(times) |-> OpEntry("PROJECT", i - 1, Metrics(times[i], NULL, NULL, ""))]

RankProfile(times) ==
  Profile(Topology(0, <<Node(0, "UNION", <<1, 2>>), Node(1, "PROJECT", <<>>),
                        Node(2, "PROJECT", <<>>)>>),
          OneFragment(RankEntries(times)))

RankProfiles == {RankProfile(times) : times \in [1..3 -> RankTimes]}

InitRank == InitView(DefaultRect)

NextRank == \E p \in RankProfiles : FirstLoad(p)

SpecRank == InitRank /\ [][NextRank]_vars

\* the derived total time of graph node id, in nanoseconds
TotalOf(id) == NodeTotalUs(currentGraph.nodes[id].metrics)

\* the position of node id in Object.entries(graph)
KeyIndex(id) == CHOOSE k \in 1..Len(currentGraph.keys) : currentGraph.keys[k] = id

\* C10: after a load the ranking holds exactly the graph nodes whose derived
\* total time is greater than zero, each once, in order of non-increasing
\* total time, nodes of equal total time in the iteration order of the
\* graph (the statement of the specification; the code violates it)
C10_RankingOrder ==
  (lastEvent = [op |-> "load", result |-> "ok"]) =>
    /\ {rankedOperators[i].id : i \in 1..Len(rankedOperators)}
         = {id \in DOMAIN currentGraph.nodes : TotalOf(id) > 0}
    /\ \A i \in 1..Len(rankedOperators) : \A j \in 1..Len(rankedOperators) :
         i < j =>
           /\ rankedOperators[i].id # rankedOperators[j].id
           /\ TotalOf(rankedOperators[i].id) >= TotalOf(rankedOperators[j].id)
           /\ TotalOf(rankedOperators[i].id) = TotalOf(rankedOperators[j].id)
                => KeyIndex(rankedOperators[i].id) < KeyIndex(rankedOperators[j].id)

\* ------------------------------------------------------------------------
\* Derived total time of scan and join nodes (claims C11, C12)
\* ------------------------------------------------------------------------
\* One plan node 0, a scan or a join, with up to MaxInstances operator
\* instances under its plan-node id.
MaxInstances == 2

MetricTotals == {NULL, TimeStr(1231, 3, "ms"), Ms(2, 0)}

MetricScanTimes == {NULL, TimeStr(500, 0, "us")}

\* the operators of a scan node: scan operators, which may report ScanTime,
\* and a chunk accumulator behind them
ScanEntries ==
  {OpEntry(name, 0, Metrics(total, scan, NULL, "")) :
     name \in {"OLAP_SCAN", "OLAP_SCAN_PREPARE"},
     total \in MetricTotals, scan \in MetricScanTimes}
  \cup {OpEntry("CHUNK_ACCUMULATE", 0, Metrics(total, NULL, NULL, "")) : total \in MetricTotals}

\* the operators of a join node: probe side, build side, chunk accumulator
JoinEntries ==
  {OpEntry(name, 0, Metrics(total, NULL, NULL, "")) :
     name \in {"HASH_JOIN_PROBE", "HASH_JOIN_BUILD", "CHUNK_ACCUMULATE"},
     total \in MetricTotals}

MetricProfile(nodeName, ops) ==
  Profile(Topology(0, <<Node(0, nodeName, <<>>)>>), OneFragment(ops))

EntryLists(entries) == UNION {[1..n -> entries] : n \in 1..MaxInstances}

MetricProfiles ==
  {MetricProfile("OLAP_SCAN", ops) : ops \in EntryLists(ScanEntries)}
  \cup {MetricProfile("HASH_JOIN", ops) : ops \in EntryLists(JoinEntries)}

InitMetrics == InitView(DefaultRect)

NextMetrics == \E p \in MetricProfiles : FirstLoad(p)

SpecMetrics == InitMetrics /\ [][NextMetrics]_vars

\* the instances stored for plan node 0 by the load
InstancesOf(id) == currentGraph.nodes[id].metrics.instances

\* a load of a profile whose node 0 is of the given class has completed
MetricsLoaded(class) ==
  /\ lastEvent = [op |-> "load", result |-> "ok"]
  /\ 0 \in DOMAIN currentGraph.nodes
  /\ getNodeClass(currentGraph.nodes[0].name) = class
  /\ currentGraph.nodes[0].metrics # NULL

\* the ranking entries of node id: none when its derived total is not positive
RankedOf(id) == SelectSeq(rankedOperators, LAMBDA op : op.id = id)

\* a metric value in nanoseconds, an absent metric counting as zero
MetricNs(value) == IF value = NULL THEN 0 ELSE parseTimeToMicroseconds(value)

\* the index of the scan instance the specification designates: exact primary
\* scan name, else a name containing SCAN, else the first instance
DesignatedScan(instances) ==
  LET exact == {i \in 1..Len(instances) :
                  instances[i].operatorName \in {"OLAP_SCAN", "CONNECTOR_SCAN"}}
      partial == {i \in 1..Len(instances) : Includes(instances[i].operatorName, "SCAN")}
      First(hits) == CHOOSE i \in hits : \A j \in hits : i <= j
  IN IF exact # {} THEN First(exact) ELSE IF partial # {} THEN First(partial) ELSE 1

\* OperatorTotalTime + ScanTime of the designated instance
DesignatedScanTotal(instances) ==
  LET m == instances[DesignatedScan(instances)].metrics
  IN MetricNs(m.CommonMetrics.OperatorTotalTime) + MetricNs(m.UniqueMetrics.ScanTime)

\* the ranking entries a total of ns nanoseconds gives: its display string
\* when positive, no entry otherwise
ShownTotal(ns) == IF ns > 0 THEN <<formatMicroseconds(ns)>> ELSE <<>>

ShownOf(id) == [i \in 1..Len(RankedOf(id)) |-> RankedOf(id)[i].timeStr]

\* C11: the derived total time of a scan node (time badge, ranking) is
\* OperatorTotalTime + ScanTime of the one designated scan instance, whatever
\* other instances share the plan-node id (the statement of the
\* specification; the code sums over every instance)
C11_ScanTotalOfChosenInstance ==
  MetricsLoaded("scan") =>
    /\ ShownOf(0) = ShownTotal(DesignatedScanTotal(InstancesOf(0)))
    /\ getNodeTotalTime(currentGraph.nodes[0].metrics)
         = (IF DesignatedScanTotal(InstancesOf(0)) > 0
            THEN formatMicroseconds(DesignatedScanTotal(InstancesOf(0))) ELSE NULL)

\* the indexes of the probe-side and of the build-side instances
ProbeIndexes(instances) ==
  {i \in 1..Len(instances) : Includes(instances[i].operatorName, "JOIN_PROBE")}

BuildIndexes(instances) ==
  {i \in 1..Len(instances) : Includes(instances[i].operatorName, "JOIN_BUILD")}

\* the case of the claim: at most one probe and at most one build instance,
\* no other instance, each reporting an OperatorTotalTime
ProbeAndOrBuild(instances) ==
  /\ Cardinality(ProbeIndexes(instances)) <= 1
  /\ Cardinality(BuildIndexes(instances)) <= 1
  /\ ProbeIndexes(instances) \cup BuildIndexes(instances) = 1..Len(instances)
  /\ \A i \in 1..Len(instances) :
       instances[i].metrics.CommonMetrics.OperatorTotalTime # NULL

\* T1 or T2: the OperatorTotalTime of the one instance in hits, zero without one
SideTotal(instances, hits) ==
  IF hits = {} THEN 0
  ELSE MetricNs(instances[CHOOSE i \in hits : TRUE].metrics.CommonMetrics.OperatorTotalTime)

JoinSum(instances) ==
  SideTotal(instances, ProbeIndexes(instances)) + SideTotal(instances, BuildIndexes(instances))

\* a load of a profile whose node 0 is a join with the instances of the claim
JoinCaseLoaded ==
  /\ lastEvent.op = "load"
  /\ currentGraph # NULL
  /\ 0 \in DOMAIN currentGraph.nodes
  /\ getNodeClass(currentGraph.nodes[0].name) = "join"
  /\ currentGraph.nodes[0].metrics # NULL
  /\ ProbeAndOrBuild(InstancesOf(0))

IdentityCamera == [x |-> 0, y |-> 0, zoom |-> ONE]

\* a step that loads a profile to completion
ProfileLoaded ==
  /\ loads' = loads + 1
  /\ lastEvent' = [op |-> "load", result |-> "ok"]

\* a step that tears the plan view down: the listener called with null while
\* a plan is on display
ViewTornDown ==
  /\ containerShown
  /\ ~containerShown'
  /\ lastEvent' = [op |-> "clear"]

\* C13: a step that loads a new profile, and a step that tears the view
\* down, leave the camera at {x: 0, y: 0, zoom: 1} (the statement of the
\* specification; the code resets the camera in neither)
C13_CameraResetOnLoadAndClear ==
  [][(ProfileLoaded \/ ViewTornDown) => camera' = IdentityCamera]_vars

\* ------------------------------------------------------------------------
\* Anchor of a zoom (claim C14), checked in SpecCamera
\* ------------------------------------------------------------------------
\* a step that zooms at a screen point: a wheel tick or a zoom button / key
ZoomAtPoint ==
  /\ cameraOps' = cameraOps + 1
  /\ lastEvent'.op \in {"wheel", "zoomToCenter"}

\* twice the screen point of the zoom step, in px: the mouse position of a
\* wheel tick, the centre of the canvas for zoomToCenter
AnchorTwice ==
  IF lastEvent'.op = "wheel" THEN <<2 * lastEvent'.mouseX, 2 * lastEvent'.mouseY>>
  ELSE <<rect.width, rect.height>>

\* the world point displayed at the screen point pt2 / 2 by camera cam
WorldUnder(cam, pt2) ==
  <<cam.x + DivZoom(pt2[1], cam.zoom) \div 2, cam.y + DivZoom(pt2[2], cam.zoom) \div 2>>

\* the camera of zoom z that displays the world point w at the screen point
\* pt2 / 2
CameraShowing(w, pt2, z) ==
  [x |-> w[1] - DivZoom(pt2[1], z) \div 2, y |-> w[2] - DivZoom(pt2[2], z) \div 2, zoom |-> z]

\* no content size is stored, or the camera that keeps the anchor at the
\* zoom the step leaves lies inside the clamp bounds
AnchorWithinBounds ==
  \/ currentContentSize.width = 0
  \/ currentContentSize.height = 0
  \/ WithinClampBounds(CameraShowing(WorldUnder(camera, AnchorTwice), AnchorTwice, camera'.zoom),
                       rect, currentContentSize)

\* C14 as stated: after a zoom at a screen point the world point under that
\* screen point is the one that was under it before
C14_ZoomKeepsAnchor ==
  [][ZoomAtPoint => WorldUnder(camera', AnchorTwice) = WorldUnder(camera, AnchorTwice)]_vars

\* C14 amended: after a zoom at a screen point the world point under that
\* screen point is the one that was under it before, provided the camera
\* that keeps it there lies inside the clamp bounds (or no content size is
\* stored); otherwise clampCameraToBounds moves the camera to the bounds
C14_ZoomKeepsAnchorWithinBounds ==
  [][ZoomAtPoint =>
       IF AnchorWithinBounds
       THEN WorldUnder(camera', AnchorTwice) = WorldUnder(camera, AnchorTwice)
       ELSE WithinClampBounds(camera', rect, currentContentSize)]_vars

\* a wheel tick away from the canvas origin has changed the zoom of a loaded
\* plan and kept the world point under the mouse
C14_Witness ==
  /\ lastEvent.op = "wheel"
  /\ lastEvent.mouseX > 0
  /\ currentContentSize.width > 0
  /\ camera.zoom # lastEvent.before.zoom
  /\ camera.x # lastEvent.before.x
  /\ WorldUnder(camera, <<2 * lastEvent.mouseX, 2 * lastEvent.mouseY>>)
       = WorldUnder(lastEvent.before, <<2 * lastEvent.mouseX, 2 * lastEvent.mouseY>>)

\* ------------------------------------------------------------------------
\* Zoom range (claim C15)
\* ------------------------------------------------------------------------
\* Runs of zoom steps long enough to reach MAX_ZOOM from the zoom a fit
\* leaves: the count of camera events starts MaxZoomOps below the budget
\* MaxCameraOps.  The steps are those of the zoom buttons and keys; a wheel
\* tick goes through the same ZoomAbout with the factors 1.01 and 0.99.
MaxZoomOps == 13

ZoomProfiles == {GoodProfileB}

ZoomQueries == {<<TypeTerm("aggregate")>>}

InitZoom == \E r \in Viewports : InitViewFrom(r, MaxCameraOps - MaxZoomOps)

NextZoom ==
  \/ \E p \in ZoomProfiles : FirstLoad(p)
  \/ AnimationFrame
  \/ \E zoomIn \in BOOLEAN : ZoomStep(zoomIn)
  \/ FitView
  \/ \E id \in {5, 9} : ZoomToNode(id)
  \/ \E q \in ZoomQueries : PressEnter(q)

SpecZoom == InitZoom /\ [][NextZoom]_vars

NavigateProfiles == {PlanTreeProfile, GoodProfileB, NamelessProfile}

NavigateIds == {0, 1, 5, 9}

InitNavigate == \E r \in Viewports : InitView(r)

NextNavigate ==
  \/ \E p \in NavigateProfiles : LoadProfile(p)
  \/ ClearQuery
  \/ AnimationFrame
  \/ \E zoomIn \in BOOLEAN : ZoomStep(zoomIn)
  \/ \E id \in NavigateIds : ZoomToNode(id)

SpecNavigate == InitNavigate /\ [][NextNavigate]_vars

\* zoomToNode has just been called on an id that is rendered and has a
\* stored layout position
NavigatedToPlacedNode ==
  /\ lastEvent.op = "zoomToNode"
  /\ lastEvent.id \in domNodes
  /\ lastEvent.id \in DOMAIN currentNodePositions

\* C16: navigate-to-node on an id with a layout position returns true and
\* leaves the camera fit-to-subset on {id} would leave from the same state
\* (the statement of the specification; the code sets zoom 1.2 instead)
C16_NavigateIsFitToSubset ==
  NavigatedToPlacedNode =>
    /\ lastEvent.ret
    /\ camera = fitToNodes(lastEvent.before, {lastEvent.id}, currentNodePositions,
                           rect, currentContentSize)

\* zoomToNode has just been called on an id that is not rendered or has no
\* stored layout position
NavigatedToMissingNode ==
  /\ lastEvent.op = "zoomToNode"
  /\ lastEvent.id \notin domNodes \/ lastEvent.id \notin DOMAIN currentNodePositions

\* C17: navigate-to-node on an id that is not rendered or has no layout
\* position returns false and leaves the camera as it was
C17_NavigateMissingLeavesCamera ==
  NavigatedToMissingNode => (~lastEvent.ret /\ camera = lastEvent.before)

\* after a camera move, zoomToNode was called on an id whose position is
\* still stored while its node element is gone (the view was cleared)
C17_Witness ==
  /\ NavigatedToMissingNode
  /\ lastEvent.id \in DOMAIN currentNodePositions
  /\ lastEvent.id \notin domNodes
  /\ camera # IdentityCamera
  /\ ~lastEvent.ret

\* ------------------------------------------------------------------------
\* Specification SpecSelector: queries with node selectors whose id is not
\* in the loaded graph (claim C18)
\* ------------------------------------------------------------------------
\* no profile of the model has a node 9
SelectorTerms ==
  {NodeTerm(FALSE, 9, FALSE), NodeTerm(TRUE, 9, TRUE),
   NodeTerm(FALSE, 1, TRUE), TypeTerm("scan"), TableTerm("orders")}

SelectorQueriesOf(n) ==
  {Interleave(ts, ops) : ts \in [1..n -> SelectorTerms], ops \in [1..(n - 1) -> EvalOps]}

SelectorQueries == UNION {SelectorQueriesOf(n) : n \in 1..MaxTerms}

InitSelector == InitView(DefaultRect)

NextSelector ==
  \/ \E p \in FilterProfiles : FirstLoad(p)
  \/ searchInput.shown /\ \E q \in SelectorQueries : PressEnter(q)

SpecSelector == InitSelector /\ [][NextSelector]_vars

\* the term at index i is a node selector whose id is not in the graph
IsAbsentTerm(query, i) ==
  query[i].t = "node" /\ query[i].id \notin DOMAIN currentGraph.nodes

\* the terms of the OR group of the term at index i
GroupOf(query, i) == {j \in TermIndexes(query) : SameOrGroup(query, i, j)}

\* Enter was pressed on a query with a node selector whose id is absent
AbsentSelectorCommitted ==
  /\ lastEvent.op = "enter"
  /\ lastEvent.applied
  /\ \E i \in TermIndexes(lastEvent.query) : IsAbsentTerm(lastEvent.query, i)

\* C18: a node selector whose id is not in the graph contributes the empty
\* set: applyFilter returns a set (no error, no hang), and that set is the
\* union of the OR groups that do not contain such a selector, each group
\* with the absent selector contributing nothing
C18_AbsentSelectorIsEmpty ==
  AbsentSelectorCommitted =>
    /\ ~hung
    /\ lastEvent.ret # NULL
    /\ lastEvent.ret.ids =
         {n \in DOMAIN currentGraph.nodes :
            \E i \in TermIndexes(lastEvent.query) :
              /\ \A j \in GroupOf(lastEvent.query, i) : ~IsAbsentTerm(lastEvent.query, j)
              /\ \A j \in GroupOf(lastEvent.query, i) : n \in TermNodes(lastEvent.query[j])}

\* a query 'a & node=9, b': the group with the absent selector adds nothing
\* although a alone matches nodes, and the group b is returned whole
C18_Witness ==
  /\ AbsentSelectorCommitted
  /\ Len(lastEvent.query) = 5
  /\ IsAndOp(lastEvent.query[2])
  /\ IsOrOp(lastEvent.query[4])
  /\ IsAbsentTerm(lastEvent.query, 3)
  /\ ~IsAbsentTerm(lastEvent.query, 1)
  /\ TermNodes(lastEvent.query[1]) # {}
  /\ lastEvent.ret # NULL
  /\ lastEvent.ret.ids = TermNodes(lastEvent.query[5])
  /\ lastEvent.ret.ids # {}
  /\ ~(TermNodes(lastEvent.query[1]) \subseteq lastEvent.ret.ids)

\* ------------------------------------------------------------------------
\* Specification SpecLayout: calculateTreeLayout on trees and on graphs
\* whose children lists are arbitrary (cycles, self loops, a node listed by
\* two parents or twice by one, ids without a node), run a second time on
\* the graph it has already laid out (claims C19, C20)
\* ------------------------------------------------------------------------
\* the children lists of a graph hold at most MaxEdges entries in all
MaxEdges == 3

\* the three nodes of the graphs; the entries of their children lists are
\* these ids and 7, an id without a node
LayoutIds == {0, 1, 2}
ChildIds == LayoutIds \cup {7}

ChildLists(n) == [1..n -> ChildIds]

\* how many entries the lists of nodes 0, 1 and 2 hold
EdgeCounts ==
  {c \in (0..MaxEdges) \X (0..MaxEdges) \X (0..MaxEdges) : c[1] + c[2] + c[3] <= MaxEdges}

\* nodes 0, 1, 2, root 0, every assignment of children lists
AnyTopologies ==
  UNION {{Topology(0, <<Node(0, "PROJECT", k0), Node(1, "PROJECT", k1),
                         Node(2, "PROJECT", k2)>>) :
            k0 \in ChildLists(c[1]), k1 \in ChildLists(c[2]), k2 \in ChildLists(c[3])}
         : c \in EdgeCounts}

LayoutProfiles == TreeProfiles \cup {Profile(t, <<>>) : t \in AnyTopologies}

\* node objects as renderFromTopology creates them: no _width yet
FreshNodes(graph) == [id \in DOMAIN graph |-> [graph[id] EXCEPT !._width = 0]]

\* calculateTreeLayout(root, graph) is called once more: on the node objects
\* of the current graph, which carry the _width of the run before, or on
\* fresh node objects of the same graph
LayoutAgain(fresh) ==
  /\ ~hung
  /\ layout # NULL
  /\ currentGraph # NULL
  /\ LET Again(lay) ==
           /\ layout' = lay
           /\ currentGraph' = [currentGraph EXCEPT !.nodes = lay.graph]
     IN Again(calculateTreeLayout(layout.root,
                                  IF fresh THEN FreshNodes(currentGraph.nodes)
                                  ELSE currentGraph.nodes))
  /\ lastEvent' = [op |-> "layout", fresh |-> fresh, before |-> layout]
  /\ UNCHANGED <<currentRootId, currentParentMap, currentContentSize,
                 currentNodePositions, rankedOperators, cameraVars, domVars,
                 searchVars, rafVars, rect, queryVars, hung, countVars>>

InitLayout == InitView(DefaultRect)

NextLayout ==
  \/ currentGraph = NULL /\ \E p \in LayoutProfiles : LoadProfile(p)
  \/ \E fresh \in BOOLEAN : LayoutAgain(fresh)

SpecLayout == InitLayout /\ [][NextLayout]_vars

\* C19: a second run of calculateTreeLayout on the same graph and children
\* order, on fresh node objects or on the node objects that carry the _width
\* of the first run, yields the same positions, width and height
C19_LayoutRepeatable ==
  lastEvent.op = "layout" =>
    /\ layout.positions = lastEvent.before.positions
    /\ layout.width = lastEvent.before.width
    /\ layout.height = lastEvent.before.height

\* a node reachable from the root lists the root among its children: the
\* children lists form a cycle through the root
CycleThroughRoot(graph, root) ==
  \E n \in Closure(graph, {root}) : root \in Range(graph[n].children)

\* the second run was made on node objects carrying _width, on a graph with
\* a cycle through the root whose root is wider than one node
C19_Witness ==
  /\ lastEvent.op = "layout"
  /\ ~lastEvent.fresh
  /\ CycleThroughRoot(lastEvent.before.graph, layout.root)
  /\ lastEvent.before.graph[layout.root]._width > NODE_WIDTH
  /\ layout.positions = lastEvent.before.positions
  /\ Cardinality(DOMAIN layout.positions) = Cardinality(LayoutIds)

\* C20: calculateTreeLayout returns on every graph, and each node reachable
\* from the root is assigned a position exactly once (a node reached again
\* is skipped); no other id gets a position
C20_EachReachableNodeOnce ==
  layout # NULL =>
    /\ DOMAIN layout.positions = Closure(layout.graph, {layout.root})
    /\ Range(layout.assigned) = DOMAIN layout.positions
    /\ Len(layout.assigned) = Cardinality(DOMAIN layout.positions)

\* a laid-out graph, all nodes reachable, in which a node is listed by two
\* different parents and lies on a cycle of the children lists
C20_Witness ==
  /\ layout # NULL
  /\ lastEvent.op = "load"
  /\ Cardinality(DOMAIN layout.positions) = Cardinality(LayoutIds)
  /\ \E n \in DOMAIN layout.graph : \E a \in DOMAIN layout.graph :
       \E b \in DOMAIN layout.graph \ {a, n} :
         /\ n \in Range(layout.graph[a].children)
         /\ n \in Range(layout.graph[b].children)
         /\ n \in Closure(layout.graph, {b})
         /\ b \in Closure(layout.graph, {n})

\* ------------------------------------------------------------------------
\* Levels of the layout of a tree (claim C21, specification SpecTree)
\* ------------------------------------------------------------------------
\* the number of edges from the root down to n, in a tree
Depth(graph, n) == Cardinality(Ancestors(graph, n)) - 1

LevelStep == NODE_HEIGHT + VERTICAL_SPACING

MaxDepth(graph, root) == SetMax({Depth(graph, n) : n \in Closure(graph, {root})})

\* C21: in the layout of a tree, the positioned ids are the nodes reachable
\* from the root, a node at depth d has y = d * (NODE_HEIGHT +
\* VERTICAL_SPACING), and the height is maxDepth * (NODE_HEIGHT +
\* VERTICAL_SPACING) + NODE_HEIGHT
C21_TreeLevels ==
  (TreeRendered /\ layout # NULL) =>
    /\ DOMAIN layout.positions = Closure(currentGraph.nodes, {currentRootId[1]})
    /\ \A n \in DOMAIN layout.positions :
         layout.positions[n].y = Depth(currentGraph.nodes, n) * LevelStep
    /\ layout.height = MaxDepth(currentGraph.nodes, currentRootId[1]) * LevelStep + NODE_HEIGHT

\* a chain of three nodes: 3 positions and height 2 * (65 + 80) + 65
C21_Witness ==
  /\ TreeRendered
  /\ layout # NULL
  /\ Cardinality(DOMAIN currentGraph.nodes) = 3
  /\ MaxDepth(currentGraph.nodes, currentRootId[1]) = 2
  /\ Cardinality(DOMAIN layout.positions) = 3
  /\ layout.height = 2 * (65 + 80) + 65

\* ------------------------------------------------------------------------
\* Edge marks of an applied filter (claim C22, specification SpecFilterUI)
\* ------------------------------------------------------------------------
\* the event just handled (Enter, a pill removal, the dim/hide toggle) called
\* applyFilter and it returned a matching set
FilterJustApplied ==
  /\ lastEvent.op \in {"enter", "remove", "toggle"}
  /\ lastEvent.ret # NULL

\* the mark of the mode the filter was applied in
ModeMark(query) == IF HasHide(query) THEN "filter-hidden" ELSE "filter-dimmed"

Seconds(s, ns) == [s |-> s + ns \div Pow10(9), ns |-> ns % Pow10(9)]

\* num / 10^dec times mult seconds
DecimalSeconds(num, dec, mult) ==
  Seconds((num * mult) \div Pow10(dec), ((num * mult) % Pow10(dec)) * Pow10(9 - dec))

\* the time branches of parseNumericValue: the compound match
\* /(\d+)s(\d+)ms/ first, then /([\d.]+)\s*(ns|us|ms|s|m|h)\b/ with its
\* table of multipliers
parseNumericValue(str) ==
  IF str = NULL \/ str = NA THEN Seconds(0, 0)
  ELSE IF str.suffix = "s+ms" THEN Seconds(str.num, str.ms * Pow10(6))
  ELSE IF str.suffix = "ns" THEN Seconds(0, Scaled(str.num, str.dec, 0))
  ELSE IF str.suffix = "us" THEN Seconds(0, Scaled(str.num, str.dec, 3))
  ELSE IF str.suffix = "ms" THEN Seconds(0, Scaled(str.num, str.dec, 6))
  ELSE IF str.suffix = "s" THEN DecimalSeconds(str.num, str.dec, 1)
  ELSE IF str.suffix = "m" THEN DecimalSeconds(str.num, str.dec, 60)
  ELSE IF str.suffix = "h" THEN DecimalSeconds(str.num, str.dec, 3600)
  ELSE Seconds(0, 0)

\* formatTime(seconds): the unit is chosen by thresholds on the nanosecond
\* count and the number is printed with toFixed(2), below 1 us with
\* toFixed(0).  The hundredths are computed from the two parts of the value:
\* (ns / 3600e9) to two decimals is (s + 18) div 36 hundredths of an hour.
formatTime(seconds) ==
  IF seconds.s = 0 /\ seconds.ns = 0 THEN TimeStr(0, 0, "ns")
  ELSE IF seconds.s >= 3600 THEN TimeStr((seconds.s + 18) \div 36, 2, "h")
  ELSE IF seconds.s >= 60
       THEN TimeStr((10 * seconds.s + seconds.ns \div Pow10(8) + 3) \div 6, 2, "m")
  ELSE IF seconds.s >= 1
       THEN TimeStr(100 * seconds.s + (seconds.ns + 5 * Pow10(6)) \div Pow10(7), 2, "s")
  ELSE IF seconds.ns >= Pow10(6) THEN TimeStr(ToFixed2(seconds.ns, Pow10(6)), 2, "ms")
  ELSE IF seconds.ns >= Pow10(3) THEN TimeStr(ToFixed2(seconds.ns, Pow10(3)), 2, "us")
  ELSE TimeStr(seconds.ns, 0, "ns")

\* ------------------------------------------------------------------------
\* Specification SpecTime: the time-string functions are applied to time
\* strings and to magnitudes (claims C23, C24)
\* ------------------------------------------------------------------------
CompoundStrings ==
  {CompoundTimeStr(sec, ms) : sec \in {0, 1, 2, 26, 59, 100},
                              ms \in {0, 1, 5, 34, 134, 250, 500, 999}}

SimpleStrings ==
  {TimeStr(500, 0, "ns"), TimeStr(1592, 3, "ms"), TimeStr(103060, 3, "ms"),
   TimeStr(500, 0, "us"), TimeStr(2, 0, "s"), TimeStr(1500, 3, "s"),
   TimeStr(150, 2, "h"), TimeStr(5, 0, "m"), NA}

\* 0, 500 ns, 1.592 ms, 26.134 s and 1.5 h
SampleMagnitudes ==
  {Seconds(0, 0), Seconds(0, 500), Seconds(0, 1592000), Seconds(26, 134000000),
   Seconds(5400, 0)}

Magnitudes ==
  SampleMagnitudes \cup
  {Seconds(sec, ns) : sec \in {0, 1, 59, 60, 90, 3599, 3600},
                      ns \in {0, 999, 1000, 250000, 1592000, 5000000, 134000000, 500000000}}

\* both parsers are applied to the time string str
ParseTime(str) ==
  /\ lastEvent' = [op |-> "parseTime", str |-> str,
                   micros |-> parseTimeToMicroseconds(str),
                   value |-> parseNumericValue(str)]
  /\ UNCHANGED <<graphVars, layoutVars, cameraVars, domVars, searchVars, rafVars,
                 rect, queryVars, hung, countVars>>

\* x is formatted and the text is parsed back
FormatTime(x) ==
  /\ lastEvent' = [op |-> "formatTime", x |-> x, text |-> formatTime(x),
                   back |-> parseNumericValue(formatTime(x))]
  /\ UNCHANGED <<graphVars, layoutVars, cameraVars, domVars, searchVars, rafVars,
                 rect, queryVars, hung, countVars>>

InitTime == InitView(DefaultRect)

NextTime ==
  \/ \E str \in CompoundStrings \cup SimpleStrings : ParseTime(str)
  \/ \E x \in Magnitudes : FormatTime(x)

SpecTime == InitTime /\ [][NextTime]_vars

\* C23: both parsers map a compound string 'NsMms' to N seconds plus M
\* milliseconds (the statement of the specification; parseTimeToMicroseconds
\* does not).  micros is held in nanoseconds.
C23_CompoundParsed ==
  (lastEvent.op = "parseTime" /\ lastEvent.str.suffix = "s+ms") =>
    /\ lastEvent.value = Seconds(lastEvent.str.num, lastEvent.str.ms * Pow10(6))
    /\ Seconds(0, lastEvent.micros) = Seconds(lastEvent.str.num, lastEvent.str.ms * Pow10(6))

\* C24: for each of the sample magnitudes, parsing the formatted time gives
\* the magnitude back (the statement of the specification; formatTime keeps
\* two decimals only)
C24_RoundTrip ==
  (lastEvent.op = "formatTime" /\ lastEvent.x \in SampleMagnitudes) =>
    lastEvent.back = lastEvent.x

\* ------------------------------------------------------------------------
\* Specification SpecExtract: extractMetricsByPlanNodeId is applied to
\* execution objects (claim C25)
\* ------------------------------------------------------------------------
\* the operator entries of all pipelines together number at most MaxOpKeys
MaxOpKeys == 3

\* a key that does not match "(.+) \(plan_node_id=(-?\d+)\)"
OtherKey == [isOp |-> FALSE, opName |-> "", planNodeId |-> 0, metrics |-> NoMetrics]

OpKeys ==
  {OpEntry("OLAP_SCAN", 0, Metrics(Ms(1, 0), NULL, NULL, "")),
   OpEntry("OLAP_SCAN_PREPARE", 0, Metrics(Ms(2, 0), NULL, NULL, "")),
   OpEntry("HASH_JOIN_PROBE", -1, Metrics(Ms(1, 0), NULL, NULL, "")),
   OtherKey}

OpLists(n) == [1..n -> OpKeys]

\* how many entries the three pipelines hold
OpCounts ==
  {c \in (0..MaxOpKeys) \X (0..MaxOpKeys) \X (0..MaxOpKeys) : c[1] + c[2] + c[3] <= MaxOpKeys}

\* an operator of plan node 0 under a key that is skipped
SkippedOps == <<OpEntry("OLAP_SCAN", 0, Metrics(Ms(3, 0), NULL, NULL, ""))>>

\* three entries of the execution object: a fragment with pipelines a and b
\* and between them an entry whose key is no 'Pipeline (id=...)', an entry
\* whose key is no 'Fragment ...', and a fragment with the pipeline c
Execution(a, b, c) ==
  [entries |->
     <<[isFragment |-> TRUE,
        pipes |-> <<[isPipeline |-> TRUE, ops |-> a],
                    [isPipeline |-> FALSE, ops |-> SkippedOps],
                    [isPipeline |-> TRUE, ops |-> b]>>],
       [isFragment |-> FALSE,
        pipes |-> <<[isPipeline |-> TRUE, ops |-> SkippedOps]>>],
       [isFragment |-> TRUE,
        pipes |-> <<[isPipeline |-> TRUE, ops |-> c]>>]>>]

Executions ==
  UNION {{Execution(a, b, c) :
            a \in OpLists(n[1]), b \in OpLists(n[2]), c \in OpLists(n[3])}
         : n \in OpCounts}

\* extractMetricsByPlanNodeId(execution) is called
ExtractMetrics(execution) ==
  /\ lastEvent' = [op |-> "extract", execution |-> execution,
                   map |-> extractMetricsByPlanNodeId(execution)]
  /\ UNCHANGED <<graphVars, layoutVars, cameraVars, domVars, searchVars, rafVars,
                 rect, queryVars, hung, countVars>>

InitExtract == InitView(DefaultRect)

\* one call on one execution object per run
NextExtract == lastEvent.op = "init" /\ \E e \in Executions : ExtractMetrics(e)

SpecExtract == InitExtract /\ [][NextExtract]_vars

\* the places <<fragment, pipeline, operator>> of the operator keys that lie
\* under a 'Fragment ...' and a 'Pipeline (id=...)' key
OperatorPlaces(entries) ==
  {pl \in (1..Len(entries)) \X (1..3) \X (1..MaxOpKeys) :
     /\ entries[pl[1]].isFragment
     /\ pl[2] <= Len(entries[pl[1]].pipes)
     /\ entries[pl[1]].pipes[pl[2]].isPipeline
     /\ pl[3] <= Len(entries[pl[1]].pipes[pl[2]].ops)
     /\ entries[pl[1]].pipes[pl[2]].ops[pl[3]].isOp}

KeyAt(entries, pl) == entries[pl[1]].pipes[pl[2]].ops[pl[3]]

\* place a comes before place b in the order of the traversal
Earlier(a, b) ==
  \/ a[1] < b[1]
  \/ a[1] = b[1] /\ a[2] < b[2]
  \/ a[1] = b[1] /\ a[2] = b[2] /\ a[3] < b[3]

PlacesOf(entries, id) ==
  {pl \in OperatorPlaces(entries) : KeyAt(entries, pl).planNodeId = id}

\* C25: the map holds an entry for exactly the plan-node ids (negative ones
\* included) that some operator key under a fragment and a pipeline encodes;
\* the instances of an id are the operators of those keys, one instance per
\* key, in the order of the traversal
C25_InstancesByPlanNode ==
  lastEvent.op = "extract" =>
    LET entries == lastEvent.execution.entries
        places == OperatorPlaces(entries)
    IN /\ DOMAIN lastEvent.map = {KeyAt(entries, pl).planNodeId : pl \in places}
       /\ \A id \in DOMAIN lastEvent.map :
            /\ Len(lastEvent.map[id].instances) = Cardinality(PlacesOf(entries, id))
            /\ \A pl \in PlacesOf(entries, id) :
                 lastEvent.map[id].instances[
                     1 + Cardinality({q \in PlacesOf(entries, id) : Earlier(q, pl)})]
                   = Instance(KeyAt(entries, pl).opName, KeyAt(entries, pl).metrics)

\* plan node 0 has two different instances, the second found in the last
\* fragment, and plan node -1 has one
C25_Witness ==
  /\ lastEvent.op = "extract"
  /\ DOMAIN lastEvent.map = {-1, 0}
  /\ Len(lastEvent.map[-1].instances) = 1
  /\ Len(lastEvent.map[0].instances) = 2
  /\ lastEvent.map[0].instances[1].operatorName = "OLAP_SCAN_PREPARE"
  /\ lastEvent.map[0].instances[2].operatorName = "OLAP_SCAN"
  /\ Len(lastEvent.execution.entries[3].pipes[1].ops) = 1

\* ------------------------------------------------------------------------
\* Specification SpecCache: profiles are loaded one after another and
\* filters are committed in between (claim C26)
\* ------------------------------------------------------------------------
CacheProfiles ==
  {GoodProfileA, GoodProfileB, PlanTreeProfile, DiamondProfile, RootMissingProfile,
   NoExecutionProfile, UnparsableProfile}

CacheQueries ==
  {<<NodeTerm(TRUE, 3, FALSE)>>, <<TypeTerm("scan")>>, <<NodeTerm(FALSE, 5, TRUE)>>}

InitCache == InitView(DefaultRect)

NextCache ==
  \/ \E p \in CacheProfiles : LoadProfile(p)
  \/ ClearQuery
  \/ searchInput.shown /\ \E q \in CacheQueries : PressEnter(q)
  \/ ClickSearchArea
  \/ ToggleHide(searchInput.value)

SpecCache == InitCache /\ [][NextCache]_vars

\* the cache is empty or holds the parent map of the stored graph and root
CacheValid ==
  \/ currentParentMap = NULL
  \/ /\ currentGraph # NULL
     /\ currentRootId # NULL
     /\ currentParentMap.map = buildParentMap(currentGraph.nodes, currentRootId[1])

\* the step is a load that replaces the stored graph
GraphReplaced ==
  /\ loads' = loads + 1
  /\ lastEvent'.op = "load"
  /\ lastEvent'.result \notin {"no-execution", "no-topology", "parse-error"}

\* a replacement of the graph empties the cache; any other step leaves a
\* filled cache as it is (it is built once, while it is empty)
CacheStep ==
  /\ GraphReplaced => currentParentMap' = NULL
  /\ (~GraphReplaced /\ currentParentMap # NULL) => currentParentMap' = currentParentMap

\* C26: in every reachable state the cached parent map is absent or is the
\* parent map of the stored graph and root; it is dropped on every graph
\* replacement, built only while absent, and so never used for another graph
C26_ParentMapCache == []CacheValid /\ [][CacheStep]_vars

\* a filter was committed on the second graph loaded after one was committed
\* on the first: the cache holds a non-empty map built for the second graph
C26_Witness ==
  /\ loads = 2
  /\ filterOps = 2
  /\ lastEvent.op = "enter"
  /\ lastEvent.applied
  /\ currentParentMap # NULL
  /\ currentParentMap.map # EmptyMap
  /\ CacheValid

\* ------------------------------------------------------------------------
\* Frame of the camera operations (claim C27, specification SpecCamera)
\* ------------------------------------------------------------------------
\* the step is a pan, a zoom, a fit to the content (toolbar, Home key or the
\* frame after a load), a minimap click or a navigation to a node
CameraStep ==
  \/ cameraOps' = cameraOps + 1
  \/ lastEvent'.op = "fitToView"

\* the step is Enter in the search input: applyFilter, then fitToNodes on
\* the matching set
FitToSubsetStep == filterOps' = filterOps + 1 /\ lastEvent'.op = "enter"

\* C27: pan, zoom, fit-to-content and navigate-to-node leave the node
\* positions, the content size, the graph, the root, the parent-map cache,
\* the filter marks and the layout as they were; the step that fits the
\* camera to a subset leaves positions, content size, graph and layout as
\* they were (its filter marks are those applyFilter has just set)
C27_CameraFrame ==
  [][/\ CameraStep =>
          UNCHANGED <<currentNodePositions, currentContentSize, graphVars, nodeMark,
                      edgeMark, layout>>
     /\ FitToSubsetStep =>
          UNCHANGED <<currentNodePositions, currentContentSize, currentGraph,
                      currentRootId, layout>>]_vars

\* a navigation to a node moved the camera while a filter was on display and
\* the parent-map cache was filled
C27_Witness ==
  /\ lastEvent.op = "zoomToNode"
  /\ lastEvent.ret
  /\ camera # lastEvent.before
  /\ currentParentMap # NULL
  /\ \E id \in DOMAIN nodeMark : nodeMark[id] = "filter-match"
  /\ \E id \in DOMAIN nodeMark : nodeMark[id] = "filter-dimmed"

\* ------------------------------------------------------------------------
\* queryState.js: listeners and the load from the URL
\* (claims C28, C30, specification SpecNotify)
\* ------------------------------------------------------------------------
MaxListeners == 4

\* a callback a module may register besides the two of main.js and
\* visualizer.js, any number of times: one that throws
OtherListeners == {"thrower"}

addListener(callback) ==
  /\ Len(listeners) < MaxListeners
  /\ listeners' = Append(listeners, callback)
  /\ UNCHANGED <<currentQuery, querySource, locationHash, urlLoad, notified>>
  /\ UNCHANGED <<graphVars, layoutVars, cameraVars, domVars, searchVars, rafVars, rect,
                 hung, countVars, lastEvent>>

\* indexOf, then splice(index, 1): the first registration of the callback
removeListener(callback) ==
  /\ \E i \in 1..Len(listeners) : listeners[i] = callback
  /\ LET index == CHOOSE i \in 1..Len(listeners) :
                    /\ listeners[i] = callback
                    /\ \A j \in 1..(i - 1) : listeners[j] # callback
     IN listeners' = SubSeq(listeners, 1, index - 1)
                       \o SubSeq(listeners, index + 1, Len(listeners))
  /\ UNCHANGED <<currentQuery, querySource, locationHash, urlLoad, notified>>
  /\ UNCHANGED <<graphVars, layoutVars, cameraVars, domVars, searchVars, rafVars, rect,
                 hung, countVars, lastEvent>>

\* initQueryState after the await: loadFromUrl resolved with a query
UrlLoadCompletes(query, parsed, tabsThrow) ==
  /\ urlLoad = "pending"
  /\ urlLoad' = "loaded"
  /\ currentQuery' = query
  /\ querySource' = parsed
  /\ RunListeners(notifyListeners(listeners, query, tabsThrow), query)
  /\ UNCHANGED <<listeners, locationHash>>

\* initQueryState after the await: loadFromUrl rejected, the catch logs it
UrlLoadFails ==
  /\ urlLoad = "pending"
  /\ urlLoad' = "failed"
  /\ UNCHANGED <<currentQuery, querySource, listeners, locationHash, notified>>
  /\ UNCHANGED <<graphVars, layoutVars, cameraVars, domVars, searchVars, rafVars, rect,
                 hung, countVars, lastEvent>>

NotifyHashes == {"", "#gist:g1"}
NotifyProfiles == {PlanTreeProfile, NoExecutionProfile}
NotifySources == {NULL, [type |-> "paste", id |-> "p1"]}

InitNotify ==
  \E hash \in NotifyHashes :
    /\ InitPlanView(DefaultRect, 0)
    /\ InitQueryStateAt(hash)

NextNotify ==
  \/ \E p \in NotifyProfiles, source \in NotifySources, tabsThrow \in BOOLEAN :
       setQuery(p, source, tabsThrow)
  \/ \E tabsThrow \in BOOLEAN : clearQuery(tabsThrow)
  \/ \E callback \in OtherListeners : addListener(callback)
  \/ \E callback \in OtherListeners : removeListener(callback)
  \/ \E p \in NotifyProfiles, tabsThrow \in BOOLEAN :
       UrlLoadCompletes(p, parseNorthStarUrl("#gist:g1"), tabsThrow)
  \/ UrlLoadFails

SpecNotify == InitNotify /\ [][NextNotify]_vars

\* the step is a setQuery or a clearQuery
SetOrClearStep == listeners' = listeners /\ urlLoad' = urlLoad

\* C28: a setQuery or clearQuery calls each registered listener once, in
\* registration order, with the new current query (null on clear), whichever
\* of them throw; a load renders in the plan view and a clear empties it
C28_ListenersNotified ==
  [][SetOrClearStep =>
       /\ Len(notified') = Len(listeners)
       /\ \A i \in 1..Len(listeners) :
            /\ notified'[i].listener = listeners[i]
            /\ notified'[i].query = currentQuery'
       /\ currentQuery' # NULL => loads' = loads + 1 /\ lastEvent'.op = "load"
       /\ currentQuery' = NULL => lastEvent'.op = "clear" /\ domNodes' = {}]_vars

\* the listener of the other tabs and a registered callback threw, and the
\* plan view's listener and the registration after the thrower were still
\* called
C28_Witness ==
  /\ Len(notified) = 4
  /\ notified[1].listener = "tabs" /\ notified[1].threw
  /\ notified[2].listener = "planView" /\ ~notified[2].threw
  /\ notified[3].listener = "thrower" /\ notified[3].threw
  /\ notified[4].listener = "thrower"
  /\ currentQuery = PlanTreeProfile
  /\ lastEvent.op = "load"
  /\ domNodes # {}

\* C30: a load from the URL that completes after a setQuery or clearQuery
\* made while it was pending leaves the query and its source as they are
C30_LatestRequestWins ==
  [][(urlLoad = "pending" /\ urlLoad' = "loaded" /\ notified # <<>>)
       => currentQuery' = currentQuery /\ querySource' = querySource]_vars

\* ------------------------------------------------------------------------
\* Matching sets against what is laid out and rendered
\* (claim C29, specification SpecMatch)
\* ------------------------------------------------------------------------
\* node 2 is in the node list and not under the root
DetachedProfile ==
  Profile(Topology(0, <<Node(0, "PROJECT", <<1>>), Node(1, "OLAP_SCAN", <<>>),
                        Node(2, "OLAP_SCAN", <<>>)>>), <<>>)

\* the root lists child 9, which the node list does not hold
DanglingProfile ==
  Profile(Topology(0, <<Node(0, "PROJECT", <<1, 9>>), Node(1, "OLAP_SCAN", <<>>)>>), <<>>)

MatchProfiles == {PlanTreeProfile, DetachedProfile, DanglingProfile}

MatchQueries ==
  {<<TypeTerm("scan")>>, <<TypeTerm("project")>>, <<NodeTerm(FALSE, 0, TRUE)>>,
   <<NodeTerm(FALSE, 1, FALSE)>>, <<NodeTerm(TRUE, 1, FALSE)>>,
   <<TypeTerm("scan"), Op("|"), NodeTerm(FALSE, 0, FALSE)>>}

InitMatch == InitView(DefaultRect)

NextMatch ==
  \/ \E p \in MatchProfiles : LoadProfile(p)
  \/ searchInput.shown /\ \E q \in MatchQueries : PressEnter(q)
  \/ ClickSearchArea
  \/ ToggleHide(searchInput.value)

SpecMatch == InitMatch /\ [][NextMatch]_vars

\* C29: every id of the matching set applyFilter returned is a node of the
\* graph with a layout position and a rendered element, and the summary
\* counts exactly these
C29_MatchesArePlaced ==
  (lastEvent.op \in {"enter", "toggle"} /\ lastEvent.ret # NULL) =>
    /\ \A id \in lastEvent.ret.ids :
         /\ id \in DOMAIN currentGraph.nodes
         /\ id \in DOMAIN currentNodePositions
         /\ id \in domNodes
    /\ filterSummary # NULL =>
         filterSummary.count = Cardinality(lastEvent.ret.ids \cap domNodes)

=============================================================================
